---- MODULE Spec2Model ----
(***************************************************************************)
(* A model of the midnight-doc-manager command line tool: the symmetric    *)
(* cipher (src/utils/encryption.ts), the key exchange and the commitments  *)
(* (src/utils/keys.ts, src/api/witnesses.ts), the storage and contract     *)
(* wrappers and the commands of src/cli.ts.                                *)
(*                                                                         *)
(* Buffers are sequences of bytes (0..255) of their real lengths.  The     *)
(* library primitives the code calls (AES-256-GCM of node:crypto, the      *)
(* X25519 / XSalsa20-Poly1305 box of tweetnacl, SHA-256) are modelled by   *)
(* small arithmetic stand-ins with the same interface and the same         *)
(* algebra: a stream cipher with a 16-byte tag over key, nonce and         *)
(* ciphertext, a commutative scalar multiplication, a digest of 32 bytes.  *)
(* They are collision-free on the keys and inputs the model samples        *)
(* (PrimitivesIdeal states it); on those the repository's code decides     *)
(* every property.                                                         *)
(***************************************************************************)
EXTENDS Integers, Sequences, FiniteSets, TLC

VARIABLES
    \* the cipher harness: one encrypt / pack / tamper / unpack / decrypt run
    cData, cKey, cEncrypted, cPacked, cFlip, cUnpacked, cPlain, cStage,
    \* the key harness: one wrap / store / unwrap run
    wDocKey, wSender, wRecipient, wWrapped, wOpener, wUnwrapped, wStage,
    \* the commitment harness: the digests of one input
    hInput, hOwner, hRecipient, hContent

cipherVars == <<cData, cKey, cEncrypted, cPacked, cFlip, cUnpacked, cPlain, cStage>>

keyVars == <<wDocKey, wSender, wRecipient, wWrapped, wOpener, wUnwrapped, wStage>>

hashVars == <<hInput, hOwner, hRecipient, hContent>>

\* the files and services the commands of src/cli.ts work on, and the
\* outcome of the command that ran last
VARIABLES keyFiles, metaFiles, storage, entropy, accessLog, uploaded, lastRun

cliVars == <<keyFiles, metaFiles, storage, entropy, accessLog, uploaded, lastRun>>

\* the call harness: the calls made so far with their arguments and
\* results, and the number of draws taken from the random source
VARIABLES callLog, drawn

callVars == <<callLog, drawn>>

\* the contract wrapper under concurrent calls: which of the two wrappers it
\* is, its fields, the calls that have not settled, what has succeeded since
\* the last close(), and the last call that settled
VARIABLES dmImpl, dm, dmPending, dmSince, dmLast

wrapVars == <<dmImpl, dm, dmPending, dmSince, dmLast>>

\* a run of the deploy script: which of the two scripts, whether the wallet
\* gets funded, the shielded balance of the wallet, the position in main,
\* its locals balance and deadline, the clock, the wallet, the exit status,
\* and what the run has submitted and written
VARIABLES dScript, dFunding, dShielded, dPc, dBalance, dDeadline, dClock,
          dWallet, dExit, dSubmitted, dWritten

deployVars == <<dScript, dFunding, dShielded, dPc, dBalance, dDeadline,
                dClock, dWallet, dExit, dSubmitted, dWritten>>

vars == <<cipherVars, keyVars, hashVars, cliVars, callVars, wrapVars,
          deployVars>>

-----------------------------------------------------------------------------
(* Bounds of the model *)

\* plaintexts are the byte strings of at most this many bytes
MaxDataLen == 2
\* the random source yields one of this many outcomes at each draw
NumDraws == 2
\* the identities (key pairs) of the model
NumIdentities == 3
\* the calls the call harness makes one after the other
MaxCalls == 2

-----------------------------------------------------------------------------
(* Values *)

\* the outcome of a call: a returned value, or a thrown Error and its message
Ok(v) == [ok |-> TRUE, value |-> v, error |-> "none"]
Err(msg) == [ok |-> FALSE, value |-> <<>>, error |-> msg]

\* the absent value (null, undefined, a variable not yet assigned)
Null == [ok |-> FALSE, value |-> <<>>, error |-> "null"]

\* the sum of c[lo..hi], taken half by half
RECURSIVE SumRange(_, _, _)
SumRange(c, lo, hi) ==
    IF lo > hi THEN 0
    ELSE IF lo = hi THEN c[lo]
    ELSE SumRange(c, lo, (lo + hi) \div 2)
         + SumRange(c, ((lo + hi) \div 2) + 1, hi)

\* the sum, modulo 256, of the bytes of s
SumBytes(s) == SumRange(s, 1, Len(s)) % 256

\* byte x with bit b inverted
FlipBit(x, b) == IF (x \div (2 ^ b)) % 2 = 0 THEN x + 2 ^ b ELSE x - 2 ^ b

\* buffer s with bit b of its byte i inverted
FlipBitAt(s, i, b) == [s EXCEPT ![i] = FlipBit(s[i], b)]

\* the sampled byte strings: every string over two byte values up to MaxDataLen
DataBytes == {7, 200}
RECURSIVE StringsOfLen(_)
StringsOfLen(n) ==
    IF n = 0 THEN {<<>>}
    ELSE {Append(s, b) : s \in StringsOfLen(n - 1), b \in DataBytes}
Data == UNION {StringsOfLen(n) : n \in 0..MaxDataLen}

\* randomBytes(n): the r-th outcome of the random source, n bytes
randomBytes(n, r) == [i \in 1..n |-> (r * 37 + i * 11) % 256]

\* a sampled key of n bytes; its bytes are the nonzero scalars 1..250
KeyBytes(n, k) == [i \in 1..n |-> ((k * 29 + i * 3) % 250) + 1]

-----------------------------------------------------------------------------
(* Buffer hex encoding.  A hex string is a sequence of characters: 0..15   *)
(* are the digits 0-9a-f, 16 is any character that is no hex digit.        *)

\* buf.toString("hex")
toHex(bytes) ==
    [i \in 1..(2 * Len(bytes)) |->
        IF i % 2 = 1 THEN bytes[(i + 1) \div 2] \div 16
        ELSE bytes[i \div 2] % 16]

\* the number of leading pairs of h that are two hex digits
HexPairs(h) ==
    LET bad == {i \in 1..(Len(h) \div 2) : h[2 * i - 1] > 15 \/ h[2 * i] > 15}
    IN  IF bad = {} THEN Len(h) \div 2
        ELSE (CHOOSE i \in bad : \A j \in bad : i <= j) - 1

\* Buffer.from(h, "hex"): decoding stops at the first pair that is not two
\* hex digits; a trailing single character is dropped
fromHex(h) == [i \in 1..HexPairs(h) |-> h[2 * i - 1] * 16 + h[2 * i]]

-----------------------------------------------------------------------------
(* node:crypto *)

\* the AES-CTR keystream byte at position i under key and iv
AesCtr(key, iv, i) ==
    (key[((i - 1) % Len(key)) + 1] + iv[((i - 1) % Len(iv)) + 1] + i) % 256

\* cipher.update(data) + cipher.final(): the ciphertext
CipherUpdate(key, iv, data) ==
    [i \in 1..Len(data) |-> (data[i] + AesCtr(key, iv, i)) % 256]

\* decipher.update(ciphertext): the plaintext, not yet authenticated
DecipherUpdate(key, iv, ciphertext) ==
    [i \in 1..Len(ciphertext) |-> (ciphertext[i] + 256 - AesCtr(key, iv, i)) % 256]

\* cipher.getAuthTag(): 16 bytes, the masked digest of the ciphertext; the
\* mask is injective in the iv, the digest changes with any one byte
GcmTag(key, iv, ciphertext) ==
    [j \in 1..16 |->
        (key[j]
         + (IF j <= Len(iv) THEN iv[j] ELSE SumBytes(iv))
         + (IF j = 1 THEN SumBytes(ciphertext)
            ELSE IF j = 2 THEN Len(ciphertext) ELSE 0)) % 256]

AuthError == "Unsupported state or unable to authenticate data"

\* 31^k in the field of the hash state
RECURSIVE HashPower(_)
HashPower(k) ==
    IF k = 0 THEN 1
    ELSE IF k = 1 THEN 31
    ELSE (HashPower(k \div 2) * HashPower(k - (k \div 2))) % 46337

\* what the state h and each byte of s contribute to the state after s
HashTerms(h, s) ==
    [i \in 0..Len(s) |->
        IF i = 0 THEN (h * HashPower(Len(s))) % 46337
        ELSE ((s[i] + 1) * HashPower(Len(s) - i)) % 46337]

\* the running state of createHash("sha256") after update(s) from state h:
\* every byte b takes the state x to 31 * x + b + 1
HashUpdate(h, s) == SumRange(HashTerms(h, s), 0, Len(s)) % 46337

\* hash.digest(): 32 bytes spelling the state
HashDigest(h) ==
    [j \in 1..32 |->
        ((h \div (256 ^ ((j - 1) % 3))) + 17 * ((j - 1) \div 3)) % 256]

\* createHash("sha256").update(s).digest()
Sha256(s) == HashDigest(HashUpdate(Len(s) + 7, s))

-----------------------------------------------------------------------------
(* src/utils/encryption.ts *)

generateDocumentKey(r) == KeyBytes(32, r)

\* encryptData taking its nonce from the key instead of the random source
encryptData_keyiv(data, key, iv) ==
    IF Len(key) # 32
    THEN Err("Encryption key must be 32 bytes (256 bits)")
    ELSE LET ciphertext == CipherUpdate(key, SubSeq(key, 1, 12), data)
             authTag == GcmTag(key, SubSeq(key, 1, 12), ciphertext)
         IN  Ok([ciphertext |-> ciphertext, iv |-> SubSeq(key, 1, 12),
                 authTag |-> authTag])

\* iv is the outcome of randomBytes(12)
encryptData(data, key, iv) ==
    IF Len(key) # 32
    THEN Err("Encryption key must be 32 bytes (256 bits)")
    ELSE LET ciphertext == CipherUpdate(key, iv, data)
             authTag == GcmTag(key, iv, ciphertext)
         IN  Ok([ciphertext |-> ciphertext, iv |-> iv, authTag |-> authTag])

\* decryptData without decipher.final(): the tag is never verified
decryptData_nofinal(encryptedData, key) ==
    IF Len(key) # 32
    THEN Err("Decryption key must be 32 bytes (256 bits)")
    ELSE Ok(DecipherUpdate(key, encryptedData.iv, encryptedData.ciphertext))

\* decryptData deciphering under the tag bytes instead of the iv
decryptData_wrongiv(encryptedData, key) ==
    IF Len(key) # 32
    THEN Err("Decryption key must be 32 bytes (256 bits)")
    ELSE IF encryptedData.authTag
            # GcmTag(key, encryptedData.iv, encryptedData.ciphertext)
    THEN Err(AuthError)
    ELSE Ok(DecipherUpdate(key, encryptedData.authTag, encryptedData.ciphertext))

\* decryptData verifying the tag before it checks the length of the key
decryptData_authfirst(encryptedData, key) ==
    IF /\ Len(key) >= 16
       /\ encryptedData.authTag
          # GcmTag(key, encryptedData.iv, encryptedData.ciphertext)
    THEN Err(AuthError)
    ELSE IF Len(key) # 32
    THEN Err("Decryption key must be 32 bytes (256 bits)")
    ELSE Ok(DecipherUpdate(key, encryptedData.iv, encryptedData.ciphertext))

decryptData(encryptedData, key) ==
    IF Len(key) # 32
    THEN Err("Decryption key must be 32 bytes (256 bits)")
    ELSE IF encryptedData.authTag
            # GcmTag(key, encryptedData.iv, encryptedData.ciphertext)
    THEN Err(AuthError)
    ELSE Ok(DecipherUpdate(key, encryptedData.iv, encryptedData.ciphertext))

\* computeContentHash digesting the data as enciphered under a fixed key
computeContentHash_cipher(data) ==
    Sha256(CipherUpdate(KeyBytes(32, 1), randomBytes(12, 1), data))

computeContentHash(data) == Sha256(data)

computeContentHashHex(data) == toHex(computeContentHash(data))

encryptFile(fileData, key, iv) == encryptData(fileData, key, iv)

decryptFile(encryptedData, key) == decryptData(encryptedData, key)

\* packEncryptedData writing the tag before the nonce
packEncryptedData_tagfirst(encryptedData) ==
    encryptedData.authTag \o encryptedData.iv \o encryptedData.ciphertext

packEncryptedData(encryptedData) ==
    encryptedData.iv \o encryptedData.authTag \o encryptedData.ciphertext

\* unpackEncryptedData taking the ciphertext from the last byte of the tag
unpackEncryptedData_offset(packed) ==
    IF Len(packed) < 28
    THEN Err("Packed data too short (minimum 28 bytes for IV + authTag)")
    ELSE Ok([iv |-> SubSeq(packed, 1, 12),
             authTag |-> SubSeq(packed, 13, 28),
             ciphertext |-> SubSeq(packed, 28, Len(packed))])

\* unpackEncryptedData reading the tag before the nonce
unpackEncryptedData_tagfirst(packed) ==
    IF Len(packed) < 28
    THEN Err("Packed data too short (minimum 28 bytes for IV + authTag)")
    ELSE Ok([iv |-> SubSeq(packed, 17, 28),
             authTag |-> SubSeq(packed, 1, 16),
             ciphertext |-> SubSeq(packed, 29, Len(packed))])

\* unpackEncryptedData refusing a payload that has no ciphertext
unpackEncryptedData_strict(packed) ==
    IF Len(packed) <= 28
    THEN Err("Packed data too short (minimum 28 bytes for IV + authTag)")
    ELSE Ok([iv |-> SubSeq(packed, 1, 12),
             authTag |-> SubSeq(packed, 13, 28),
             ciphertext |-> SubSeq(packed, 29, Len(packed))])

unpackEncryptedData(packed) ==
    IF Len(packed) < 28
    THEN Err("Packed data too short (minimum 28 bytes for IV + authTag)")
    ELSE Ok([iv |-> SubSeq(packed, 1, 12),
             authTag |-> SubSeq(packed, 13, 28),
             ciphertext |-> SubSeq(packed, 29, Len(packed))])

-----------------------------------------------------------------------------
(* The cipher harness: encryptData on a sampled plaintext and key, then    *)
(* decryptData directly, or packEncryptedData, at most one bit of the      *)
(* packed bytes inverted, unpackEncryptedData and decryptData.             *)

CipherIdle ==
    /\ cData = <<>>
    /\ cKey = <<>>
    /\ cEncrypted = Null
    /\ cPacked = <<>>
    /\ cFlip = <<>>
    /\ cUnpacked = Null
    /\ cPlain = Null
    /\ cStage = "idle"

KeysIdle ==
    /\ wDocKey = <<>>
    /\ wSender = Null
    /\ wRecipient = Null
    /\ wWrapped = Null
    /\ wOpener = Null
    /\ wUnwrapped = Null
    /\ wStage = "idle"

HashIdle ==
    /\ hInput = <<>>
    /\ hOwner = Null
    /\ hRecipient = Null
    /\ hContent = Null

\* what a command run leaves behind: the arguments it read, its exit code
\* and error, the calls it made in their order, and what it produced
Run(cmd) ==
    [cmd |-> cmd, docId |-> <<>>, keypair |-> 0, file |-> <<>>,
     pubkey |-> <<>>, fault |-> "none", dryRun |-> FALSE,
     exit |-> 0, error |-> "none", calls |-> <<>>,
     documentId |-> <<>>, wrote |-> Null, report |-> "none",
     registered |-> Null, wrapped |-> Null, granted |-> Null,
     access |-> "none", grant |-> "none", force |-> FALSE]

CliIdle ==
    /\ keyFiles = <<>>
    /\ metaFiles = <<>>
    /\ storage = <<>>
    /\ entropy = 0
    /\ accessLog = <<>>
    /\ uploaded = <<>>
    /\ lastRun = Run("none")

CallsIdle ==
    /\ callLog = <<>>
    /\ drawn = 0

WrapIdle ==
    /\ dmImpl = "none"
    /\ dm = [isConnected |-> FALSE, contract |-> FALSE, walletContext |-> FALSE]
    /\ dmPending = [connect |-> "no", connectToDeployed |-> "no",
                    close |-> "no",
                    since |-> [connect |-> FALSE,
                               connectToDeployed |-> FALSE]]
    /\ dmSince = [connect |-> FALSE, connectToDeployed |-> FALSE]
    /\ dmLast = [fn |-> "none", out |-> Null]

DeployIdle ==
    /\ dScript = "none"
    /\ dFunding = "none"
    /\ dShielded = 0
    /\ dPc = "none"
    /\ dBalance = 0
    /\ dDeadline = 0
    /\ dClock = 0
    /\ dWallet = "none"
    /\ dExit = -1
    /\ dSubmitted = FALSE
    /\ dWritten = FALSE

CipherKeys == {KeyBytes(32, k) : k \in 1..2} \cup {KeyBytes(16, 1)}

InitCipher ==
    /\ cData \in Data
    /\ cKey \in CipherKeys
    /\ cEncrypted = Null
    /\ cPacked = <<>>
    /\ cFlip = <<>>
    /\ cUnpacked = Null
    /\ cPlain = Null
    /\ cStage = "input"
    /\ KeysIdle
    /\ HashIdle
    /\ CliIdle
    /\ CallsIdle
    /\ WrapIdle
    /\ DeployIdle

Encrypt ==
    /\ cStage = "input"
    /\ \E r \in 1..NumDraws :
          cEncrypted' = encryptData(cData, cKey, randomBytes(12, r))
    /\ cStage' = "encrypted"
    /\ UNCHANGED <<cData, cKey, cPacked, cFlip, cUnpacked, cPlain, keyVars,
                   hashVars, cliVars, callVars, wrapVars, deployVars>>

DecryptDirect ==
    /\ cStage = "encrypted"
    /\ cEncrypted.ok
    /\ cPlain' = decryptData(cEncrypted.value, cKey)
    /\ cStage' = "decrypted"
    /\ UNCHANGED <<cData, cKey, cEncrypted, cPacked, cFlip, cUnpacked,
                   keyVars, hashVars, cliVars, callVars, wrapVars, deployVars>>

Pack ==
    /\ cStage = "encrypted"
    /\ cEncrypted.ok
    /\ cPacked' = packEncryptedData(cEncrypted.value)
    /\ cStage' = "packed"
    /\ UNCHANGED <<cData, cKey, cEncrypted, cFlip, cUnpacked, cPlain,
                   keyVars, hashVars, cliVars, callVars, wrapVars, deployVars>>

Tamper ==
    /\ cStage = "packed"
    /\ cFlip = <<>>
    /\ \E i \in 1..Len(cPacked), b \in 0..7 :
          /\ cPacked' = FlipBitAt(cPacked, i, b)
          /\ cFlip' = <<i, b>>
    /\ UNCHANGED <<cData, cKey, cEncrypted, cUnpacked, cPlain, cStage,
                   keyVars, hashVars, cliVars, callVars, wrapVars, deployVars>>

Unpack ==
    /\ cStage = "packed"
    /\ cUnpacked' = unpackEncryptedData(cPacked)
    /\ cStage' = "unpacked"
    /\ UNCHANGED <<cData, cKey, cEncrypted, cPacked, cFlip, cPlain, keyVars,
                   hashVars, cliVars, callVars, wrapVars, deployVars>>

DecryptUnpacked ==
    /\ cStage = "unpacked"
    /\ cUnpacked.ok
    /\ cPlain' = decryptData(cUnpacked.value, cKey)
    /\ cStage' = "decrypted"
    /\ UNCHANGED <<cData, cKey, cEncrypted, cPacked, cFlip, cUnpacked,
                   keyVars, hashVars, cliVars, callVars, wrapVars, deployVars>>

NextCipher ==
    \/ Encrypt
    \/ DecryptDirect
    \/ Pack
    \/ Tamper
    \/ Unpack
    \/ DecryptUnpacked

SpecCipher == InitCipher /\ [][NextCipher]_vars

-----------------------------------------------------------------------------
(* C1: for every byte string P and every 32-byte key K,                    *)
(* decryptData(encryptData(P, K), K) returns exactly P, whichever nonce    *)
(* encryptData drew.                                                       *)
C1_RoundTrip ==
    (cStage = "decrypted" /\ cFlip = <<>> /\ Len(cKey) = 32)
        => (cPlain.ok /\ cPlain.value = cData)

\* a non-empty plaintext was encrypted and decrypted without pack / unpack
C1_Witness ==
    /\ cStage = "decrypted"
    /\ cPacked = <<>>
    /\ Len(cKey) = 32
    /\ Len(cData) = MaxDataLen
    /\ cPlain.ok

\* the round trip of the empty plaintext
C1_WitnessEmpty ==
    /\ cStage = "decrypted"
    /\ cPacked = <<>>
    /\ cData = <<>>
    /\ cPlain.ok

(* C2: for every non-empty plaintext and 32-byte key, inverting any single *)
(* bit of the packed payload (nonce, tag or ciphertext) makes decrypt of   *)
(* the unpacked payload fail with the authentication failure; no           *)
(* plaintext is returned.                                                  *)
C2_TamperDetected ==
    (cStage = "decrypted" /\ cFlip # <<>> /\ cData # <<>> /\ Len(cKey) = 32)
        => (~cPlain.ok /\ cPlain.error = AuthError)

\* a bit of the ciphertext (past byte 28) was inverted and decrypt has run
C2_Witness ==
    /\ cStage = "decrypted"
    /\ cFlip # <<>>
    /\ cFlip[1] > 28
    /\ cData # <<>>

\* the same for a bit of the nonce and a bit of the tag
C2_WitnessNonce ==
    cStage = "decrypted" /\ cFlip # <<>> /\ cFlip[1] <= 12 /\ cData # <<>>

C2_WitnessTag ==
    /\ cStage = "decrypted" /\ cFlip # <<>> /\ cData # <<>>
    /\ cFlip[1] > 12 /\ cFlip[1] <= 28

-----------------------------------------------------------------------------
(* tweetnacl: box = X25519 + XSalsa20-Poly1305.  Scalars and points are    *)
(* 32 bytes; the scalar multiplication is, byte by byte, the               *)
(* multiplication of the prime field of 251 elements, the base point 9.    *)

\* nacl.scalarMult.base(n)
ScalarMultBase(n) == [i \in 1..32 |-> (n[i] * 9) % 251]

\* nacl.scalarMult(n, p)
ScalarMult(n, p) == [i \in 1..32 |-> (n[i] * p[i]) % 251]

\* the XSalsa20 keystream byte at position i
BoxStream(k, nonce, i) ==
    (k[((i - 1) % 32) + 1] + nonce[((i - 1) % 24) + 1] + i) % 256

\* the Poly1305 authenticator of ciphertext c: 16 bytes
BoxTag(k, nonce, c) ==
    [j \in 1..16 |->
        (k[j] + nonce[j] + (IF j = 1 THEN SumBytes(c) ELSE 0)) % 256]

\* nacl.secretbox(msg, nonce, k): authenticator, then ciphertext
SecretBox(msg, nonce, k) ==
    LET c == [i \in 1..Len(msg) |-> (msg[i] + BoxStream(k, nonce, i)) % 256]
    IN  BoxTag(k, nonce, c) \o c

\* nacl.secretbox.open(box, nonce, k): the message, or null
SecretBoxOpen(box, nonce, k) ==
    IF Len(box) < 16 THEN Null
    ELSE LET c == SubSeq(box, 17, Len(box))
         IN  IF SubSeq(box, 1, 16) # BoxTag(k, nonce, c) THEN Null
             ELSE Ok([i \in 1..Len(c) |->
                        (c[i] + 256 - BoxStream(k, nonce, i)) % 256])

\* checkBoxLengths / checkLengths of nacl.box and nacl.box.open
BoxLengthError(nonce, publicKey, secretKey) ==
    IF Len(publicKey) # 32 THEN Err("bad public key size")
    ELSE IF Len(secretKey) # 32 THEN Err("bad secret key size")
    ELSE IF Len(nonce) # 24 THEN Err("bad nonce size")
    ELSE Null

\* nacl.box(msg, nonce, publicKey, secretKey)
Box(msg, nonce, publicKey, secretKey) ==
    IF BoxLengthError(nonce, publicKey, secretKey) # Null
    THEN BoxLengthError(nonce, publicKey, secretKey)
    ELSE Ok(SecretBox(msg, nonce, ScalarMult(secretKey, publicKey)))

\* nacl.box.open(box, nonce, publicKey, secretKey)
BoxOpen(box, nonce, publicKey, secretKey) ==
    IF BoxLengthError(nonce, publicKey, secretKey) # Null
    THEN BoxLengthError(nonce, publicKey, secretKey)
    ELSE SecretBoxOpen(box, nonce, ScalarMult(secretKey, publicKey))

-----------------------------------------------------------------------------
(* src/utils/keys.ts *)

\* generateKeyPairFromSeed refusing only the seeds shorter than 32 bytes
generateKeyPairFromSeed_lenient(seed) ==
    IF Len(seed) < 32
    THEN Err("Seed must be 32 bytes")
    ELSE Ok([publicKey |-> ScalarMultBase(seed), secretKey |-> seed])

generateKeyPairFromSeed(seed) ==
    IF Len(seed) # 32
    THEN Err("Seed must be 32 bytes")
    ELSE Ok([publicKey |-> ScalarMultBase(seed), secretKey |-> seed])

\* nacl.box.keyPair(): the pair of a random secret key, the r-th outcome
generateKeyPair(r) ==
    [publicKey |-> ScalarMultBase(KeyBytes(32, 10 + r)),
     secretKey |-> KeyBytes(32, 10 + r)]

serializeKeyPair(keypair) ==
    [publicKey |-> toHex(keypair.publicKey),
     secretKey |-> toHex(keypair.secretKey)]

deserializeKeyPair(serialized) ==
    [publicKey |-> fromHex(serialized.publicKey),
     secretKey |-> fromHex(serialized.secretKey)]

\* wrapDocumentKey boxing for the sender's own public key
wrapDocumentKey_tosender(documentKey, recipientPublicKey, senderKeypair, nonce) ==
    IF Len(documentKey) # 32
    THEN Err("Document key must be 32 bytes")
    ELSE LET encryptedKey ==
                 Box(documentKey, nonce, senderKeypair.publicKey,
                     senderKeypair.secretKey)
         IN  IF ~encryptedKey.ok THEN encryptedKey
             ELSE Ok([encryptedKey |-> encryptedKey.value,
                      nonce |-> nonce,
                      senderPublicKey |-> senderKeypair.publicKey])

\* wrapDocumentKey recording the recipient's key as the sender's
wrapDocumentKey_norecord(documentKey, recipientPublicKey, senderKeypair, nonce) ==
    IF Len(documentKey) # 32
    THEN Err("Document key must be 32 bytes")
    ELSE LET encryptedKey ==
                 Box(documentKey, nonce, recipientPublicKey,
                     senderKeypair.secretKey)
         IN  IF ~encryptedKey.ok THEN encryptedKey
             ELSE Ok([encryptedKey |-> encryptedKey.value,
                      nonce |-> nonce,
                      senderPublicKey |-> recipientPublicKey])

\* wrapDocumentKey without the check of the length of the document key
wrapDocumentKey_anykey(documentKey, recipientPublicKey, senderKeypair, nonce) ==
    LET encryptedKey ==
            Box(documentKey, nonce, recipientPublicKey, senderKeypair.secretKey)
    IN  IF ~encryptedKey.ok THEN encryptedKey
        ELSE Ok([encryptedKey |-> encryptedKey.value,
                 nonce |-> nonce,
                 senderPublicKey |-> senderKeypair.publicKey])

\* wrapDocumentKey putting the key itself behind the 16 bytes of the tag
wrapDocumentKey_clear(documentKey, recipientPublicKey, senderKeypair, nonce) ==
    IF Len(documentKey) # 32
    THEN Err("Document key must be 32 bytes")
    ELSE Ok([encryptedKey |-> SubSeq(nonce, 1, 16) \o documentKey,
             nonce |-> nonce,
             senderPublicKey |-> senderKeypair.publicKey])

\* nonce is the outcome of randomBytes(nacl.box.nonceLength)
wrapDocumentKey(documentKey, recipientPublicKey, senderKeypair, nonce) ==
    IF Len(documentKey) # 32
    THEN Err("Document key must be 32 bytes")
    ELSE LET encryptedKey ==
                 Box(documentKey, nonce, recipientPublicKey,
                     senderKeypair.secretKey)
         IN  IF ~encryptedKey.ok THEN encryptedKey
             ELSE Ok([encryptedKey |-> encryptedKey.value,
                      nonce |-> nonce,
                      senderPublicKey |-> senderKeypair.publicKey])

UnwrapError == "Failed to decrypt document key - invalid key or corrupted data"

\* unwrapDocumentKey opening against the recipient's own public key
unwrapDocumentKey_ownkey(wrappedKey, recipientSecretKey) ==
    LET decrypted ==
            BoxOpen(wrappedKey.encryptedKey, wrappedKey.nonce,
                    ScalarMultBase(recipientSecretKey), recipientSecretKey)
    IN  IF decrypted = Null THEN Err(UnwrapError) ELSE decrypted

\* unwrapDocumentKey returning the boxed bytes when the box does not open
unwrapDocumentKey_unchecked(wrappedKey, recipientSecretKey) ==
    LET decrypted ==
            BoxOpen(wrappedKey.encryptedKey, wrappedKey.nonce,
                    wrappedKey.senderPublicKey, recipientSecretKey)
    IN  IF decrypted = Null
        THEN Ok(SubSeq(wrappedKey.encryptedKey, 17,
                       Len(wrappedKey.encryptedKey)))
        ELSE decrypted

unwrapDocumentKey(wrappedKey, recipientSecretKey) ==
    LET decrypted ==
            BoxOpen(wrappedKey.encryptedKey, wrappedKey.nonce,
                    wrappedKey.senderPublicKey, recipientSecretKey)
    IN  IF decrypted = Null THEN Err(UnwrapError) ELSE decrypted

serializeWrappedKey(wrappedKey) ==
    [encryptedKey |-> toHex(wrappedKey.encryptedKey),
     nonce |-> toHex(wrappedKey.nonce),
     senderPublicKey |-> toHex(wrappedKey.senderPublicKey)]

deserializeWrappedKey(serialized) ==
    [encryptedKey |-> fromHex(serialized.encryptedKey),
     nonce |-> fromHex(serialized.nonce),
     senderPublicKey |-> fromHex(serialized.senderPublicKey)]

getPublicKeyHex(keypair) == toHex(keypair.publicKey)

parsePublicKeyHex(hex) ==
    IF Len(hex) # 64
    THEN Err("Invalid public key: must be 64 hex characters (32 bytes)")
    ELSE Ok(fromHex(hex))

-----------------------------------------------------------------------------
(* The identities of the model, and the key harness: wrapDocumentKey of a  *)
(* sampled document key by a sender for a recipient, the wrapped key       *)
(* stored in its hex form and read back, and unwrapDocumentKey under the   *)
(* secret key of any identity.                                             *)

KeyPairs == {generateKeyPair(k) : k \in 1..NumIdentities}

DocKeys == {generateDocumentKey(r) : r \in 1..NumDraws}

InitKeys ==
    /\ wDocKey \in DocKeys
    /\ wSender \in KeyPairs
    /\ wRecipient \in KeyPairs
    /\ wWrapped = Null
    /\ wOpener = Null
    /\ wUnwrapped = Null
    /\ wStage = "input"
    /\ CipherIdle
    /\ HashIdle
    /\ CliIdle
    /\ CallsIdle
    /\ WrapIdle
    /\ DeployIdle

Wrap ==
    /\ wStage = "input"
    /\ \E r \in 1..NumDraws :
          wWrapped' = wrapDocumentKey(wDocKey, wRecipient.publicKey, wSender,
                                      randomBytes(24, r))
    /\ wStage' = "wrapped"
    /\ UNCHANGED <<wDocKey, wSender, wRecipient, wOpener, wUnwrapped,
                   cipherVars, hashVars, cliVars, callVars, wrapVars, deployVars>>

\* the wrapped key written as hex (the metadata record) and read back
StoreWrapped ==
    /\ wStage = "wrapped"
    /\ wWrapped.ok
    /\ wWrapped' = Ok(deserializeWrappedKey(serializeWrappedKey(wWrapped.value)))
    /\ wStage' = "stored"
    /\ UNCHANGED <<wDocKey, wSender, wRecipient, wOpener, wUnwrapped,
                   cipherVars, hashVars, cliVars, callVars, wrapVars, deployVars>>

Unwrap ==
    /\ wStage \in {"wrapped", "stored"}
    /\ wWrapped.ok
    /\ \E x \in KeyPairs :
          /\ wOpener' = x
          /\ wUnwrapped' = unwrapDocumentKey(wWrapped.value, x.secretKey)
    /\ wStage' = "unwrapped"
    /\ UNCHANGED <<wDocKey, wSender, wRecipient, wWrapped, cipherVars,
                   hashVars, cliVars, callVars, wrapVars, deployVars>>

NextKeys ==
    \/ Wrap
    \/ StoreWrapped
    \/ Unwrap

SpecKeys == InitKeys /\ [][NextKeys]_vars

-----------------------------------------------------------------------------
(* C3: for every 32-byte document key D, sender key pair S and recipient   *)
(* key pair R, unwrapDocumentKey(wrapDocumentKey(D, R.publicKey, S),       *)
(* R.secretKey) returns exactly D.                                         *)
C3_WrapRoundTrip ==
    (wStage = "unwrapped" /\ wOpener = wRecipient)
        => (wUnwrapped.ok /\ wUnwrapped.value = wDocKey)

\* a key wrapped by one identity for another was unwrapped by the recipient
C3_Witness ==
    /\ wStage = "unwrapped"
    /\ wOpener = wRecipient
    /\ wSender # wRecipient
    /\ wUnwrapped.ok

(* C4: for every document key, sender S, recipient R and key pair X other  *)
(* than R (the sender included), unwrapDocumentKey of the key wrapped for  *)
(* R under X's secret key fails with the unwrap failure and returns no     *)
(* key.                                                                    *)
C4_WrapExclusive ==
    (wStage = "unwrapped" /\ wOpener # wRecipient)
        => (~wUnwrapped.ok /\ wUnwrapped.error = UnwrapError)

\* the sender itself, not the recipient, tried to unwrap
C4_Witness ==
    /\ wStage = "unwrapped"
    /\ wOpener = wSender
    /\ wOpener # wRecipient
    /\ ~wUnwrapped.ok

\* a third identity, neither sender nor recipient, tried to unwrap
C4_WitnessThird ==
    /\ wStage = "unwrapped"
    /\ wOpener # wSender
    /\ wOpener # wRecipient
    /\ wSender # wRecipient
    /\ ~wUnwrapped.ok

\* the bytes of "midnight-doc-manager:owner-key:", the domain of
\* deriveSecretKeyFromWalletSeed
OwnerKeyDomain == [i \in 1..31 |-> 96 + i]

-----------------------------------------------------------------------------
(* src/api/witnesses.ts and the commitment of src/utils/keys.ts *)

\* computeOwnerCommitment hashing under a domain-separation prefix
computeOwnerCommitment_domain(secretKey) ==
    IF Len(secretKey) # 32
    THEN Err("Secret key must be 32 bytes")
    ELSE Ok(Sha256(OwnerKeyDomain \o secretKey))

\* computeOwnerCommitment digesting nothing of the key
computeOwnerCommitment_nokey(secretKey) ==
    IF Len(secretKey) # 32
    THEN Err("Secret key must be 32 bytes")
    ELSE Ok(Sha256(<<>>))

computeOwnerCommitment(secretKey) ==
    IF Len(secretKey) # 32
    THEN Err("Secret key must be 32 bytes")
    ELSE Ok(Sha256(secretKey))

computePublicKeyCommitment(publicKey) == Sha256(publicKey)

deriveSecretKeyFromWalletSeed(walletSeed) ==
    Sha256(OwnerKeyDomain \o fromHex(walletSeed))

-----------------------------------------------------------------------------
(* The commitment harness: the owner commitment, the public-key            *)
(* commitment and the content hash of one sampled input.                   *)

CommitInputs ==
    {kp.secretKey : kp \in KeyPairs} \cup {kp.publicKey : kp \in KeyPairs}
        \cup DocKeys \cup Data \cup {KeyBytes(16, 1), KeyBytes(33, 1)}

InitCommit ==
    /\ hInput \in CommitInputs
    /\ hOwner = Null
    /\ hRecipient = Null
    /\ hContent = Null
    /\ CipherIdle
    /\ KeysIdle
    /\ CliIdle
    /\ CallsIdle
    /\ WrapIdle
    /\ DeployIdle

OwnerCommitment ==
    /\ hOwner = Null
    /\ hOwner' = computeOwnerCommitment(hInput)
    /\ UNCHANGED <<hInput, hRecipient, hContent, cipherVars, keyVars,
                   cliVars, callVars, wrapVars, deployVars>>

PublicKeyCommitment ==
    /\ hRecipient = Null
    /\ hRecipient' = Ok(computePublicKeyCommitment(hInput))
    /\ UNCHANGED <<hInput, hOwner, hContent, cipherVars, keyVars, cliVars,
                   callVars, wrapVars, deployVars>>

ContentHash ==
    /\ hContent = Null
    /\ hContent' = Ok(computeContentHash(hInput))
    /\ UNCHANGED <<hInput, hOwner, hRecipient, cipherVars, keyVars, cliVars,
                   callVars, wrapVars, deployVars>>

NextCommit ==
    \/ OwnerCommitment
    \/ PublicKeyCommitment
    \/ ContentHash

SpecCommit == InitCommit /\ [][NextCommit]_vars

\* the three digests of a 32-byte input have been computed
CommitsDone ==
    /\ Len(hInput) = 32
    /\ hOwner.ok
    /\ hRecipient.ok
    /\ hContent.ok

-----------------------------------------------------------------------------
(* C5 as stated: for every 32-byte value K, the owner commitment of K,     *)
(* the recipient commitment of K and the content hash of K are never       *)
(* equal to one another.                                                   *)
C5_DomainSeparated ==
    CommitsDone =>
        /\ hOwner.value # hRecipient.value
        /\ hOwner.value # hContent.value
        /\ hRecipient.value # hContent.value

(* C5 as amended: the commitments apply no domain-separation context; for  *)
(* every 32-byte value K the owner commitment of K, the recipient          *)
(* commitment of K and the content hash of K are one and the same 32-byte  *)
(* digest of K.                                                            *)
C5_SameDigest ==
    CommitsDone =>
        /\ hOwner.value = hRecipient.value
        /\ hOwner.value = hContent.value
        /\ Len(hOwner.value) = 32

\* the three digests of an identity's secret key have been computed
C5_Witness ==
    /\ CommitsDone
    /\ \E kp \in KeyPairs : hInput = kp.secretKey

-----------------------------------------------------------------------------
(* src/storage.ts: the Pinata (IPFS) provider.  The pinned content is a    *)
(* function from content identifier to bytes; the identifier is derived    *)
(* from the content.                                                       *)

Cid(data) == SubSeq(Sha256(data), 1, 8)

\* PinataStorage.upload: available is whether the service accepts the file
PinataUpload(store, data, available) ==
    IF ~available
    THEN [store |-> store, res |-> Err("Failed to upload to IPFS")]
    ELSE [store |-> (Cid(data) :> data) @@ store, res |-> Ok(Cid(data))]

\* PinataStorage.download: the gateway answers with the pinned bytes, with
\* an HTTP error, or (fault "corrupt") with bytes that are not the pinned ones
PinataDownload(store, cid, fault) ==
    IF fault = "storage" \/ cid \notin DOMAIN store
    THEN Err("Failed to download from IPFS")
    ELSE IF fault = "corrupt"
    THEN Ok(FlipBitAt(store[cid], Len(store[cid]), 0))
    ELSE Ok(store[cid])

uploadToStorage(store, data, available) == PinataUpload(store, data, available)

downloadFromStorage(store, storageId, fault) ==
    PinataDownload(store, storageId, fault)

\* EnvironmentManager.validateStorageConfig
validateStorageConfig(configured) ==
    IF ~configured
    THEN Err("PINATA_JWT is required when using IPFS storage provider")
    ELSE Ok(<<>>)

-----------------------------------------------------------------------------
(* src/api/contract.ts: DocumentManagerContract.  The wrapper is the       *)
(* record of its fields; a call returns the wrapper after it and its       *)
(* result.                                                                 *)

NotConnected == "Contract not connected"

\* new DocumentManagerContract(mnemonic)
createDocumentManager ==
    [isConnected |-> FALSE, contract |-> FALSE, walletContext |-> FALSE]

connect(w, mnemonicValid) ==
    IF ~mnemonicValid
    THEN [w |-> w, res |-> Err("Invalid mnemonic")]
    ELSE [w |-> [w EXCEPT !.walletContext = TRUE, !.isConnected = TRUE],
          res |-> Ok(<<>>)]

waitForSync(w) ==
    IF ~w.walletContext THEN Err("Not connected") ELSE Ok(<<>>)

\* a lookup that finds a deployment whether or not the file exists
loadDeploymentInfo_always(deployed) == Ok(<<>>)

\* deployed is whether deployment.json exists in the working directory
loadDeploymentInfo(deployed) == IF deployed THEN Ok(<<>>) ELSE Null

\* importOk is whether the import of the compiled contract module succeeds
connectToDeployed(w, importOk) ==
    IF ~w.isConnected \/ ~w.walletContext
    THEN [w |-> w, res |-> Err("Not connected. Call connect() first.")]
    ELSE IF ~importOk
    THEN [w |-> w, res |-> Err("Failed to load contract")]
    ELSE [w |-> [w EXCEPT !.contract = TRUE], res |-> Ok(<<>>)]

\* the circuit calls only log the transaction intent
registerDocument(w, documentId, contentHash, storageCid, ownerCommitment) ==
    IF ~w.contract THEN Err(NotConnected) ELSE Ok(<<>>)

verifyDocument(w, documentId, providedHash) ==
    IF ~w.contract THEN Err(NotConnected) ELSE Ok(TRUE)

grantAccess(w, documentId, recipientCommitment, encryptedKey, nonce,
            senderPublicKey) ==
    IF ~w.contract THEN Err(NotConnected) ELSE Ok(<<>>)

revokeAccess(w, documentId, recipientCommitment) ==
    IF ~w.contract THEN Err(NotConnected) ELSE Ok(<<>>)

hasAccess(w, documentId, recipientCommitment) ==
    IF ~w.contract THEN Err(NotConnected) ELSE Ok(TRUE)

getAccessGrant(w, documentId, recipientCommitment) ==
    IF ~w.contract THEN Err(NotConnected) ELSE Ok("null")

\* close() that stops the wallet and keeps the loaded contract
close_keepcontract(w) ==
    [w EXCEPT !.isConnected = FALSE, !.walletContext = FALSE]

close(w) ==
    [w EXCEPT !.isConnected = FALSE, !.contract = FALSE,
              !.walletContext = FALSE]

-----------------------------------------------------------------------------
(* src/cli.ts.  A command is one process: it starts when no command runs  *)
(* and runs to its end in one step.  Its inputs are the                    *)
(* command line arguments and what the environment answers during the run: *)
(* fault names the one step of the run that the environment makes fail.    *)

\* str.slice(0, n)
Slice(s, n) == SubSeq(s, 1, IF Len(s) < n THEN Len(s) ELSE n)

findMetadataFile(files, documentIdHex) ==
    IF Slice(documentIdHex, 16) \in DOMAIN files
    THEN Ok(Slice(documentIdHex, 16))
    ELSE Null

loadKeyPair(files, path) ==
    IF path \notin DOMAIN files
    THEN Err("Keypair file not found")
    ELSE Ok(deserializeKeyPair(files[path]))

\* the calls every ledger command makes on a new wrapper: connect,
\* waitForSync, loadDeploymentInfo, connectToDeployed, the call Op, close
LedgerSession(name, fault, Op(_)) ==
    LET c1 == connect(createDocumentManager, fault # "mnemonic")
        sync == waitForSync(c1.w)
        info == loadDeploymentInfo(fault # "nodeploy")
        c2 == connectToDeployed(c1.w, fault # "import")
        r == Op(c2.w)
    IN  IF ~c1.res.ok
        THEN [ok |-> FALSE, error |-> c1.res.error, result |-> Null,
              calls |-> <<"connect">>]
        ELSE IF ~sync.ok
        THEN [ok |-> FALSE, error |-> sync.error, result |-> Null,
              calls |-> <<"connect", "waitForSync">>]
        ELSE IF ~info.ok
        THEN [ok |-> FALSE, error |-> "No deployment", result |-> Null,
              calls |-> <<"connect", "waitForSync", "close">>]
        ELSE IF ~c2.res.ok
        THEN [ok |-> FALSE, error |-> c2.res.error, result |-> Null,
              calls |-> <<"connect", "waitForSync", "connectToDeployed">>]
        ELSE IF ~r.ok
        THEN [ok |-> FALSE, error |-> r.error, result |-> Null,
              calls |-> <<"connect", "waitForSync", "connectToDeployed",
                          name>>]
        ELSE [ok |-> TRUE, error |-> "none", result |-> r,
              calls |-> <<"connect", "waitForSync", "connectToDeployed",
                          name, "close">>]

\* the files given to upload and verify
Files == {<<>>, <<7>>, <<200, 7>>}

\* a <file> argument that names no file
NoFile == <<256>>

\* the --keypair paths: identity k keeps its pair at path k, path 0 is no file
KeyPaths == 0..NumIdentities

StorageFaults == {"none", "config", "storage"}

LedgerFaults == {"none", "mnemonic", "nodeploy", "import"}

\* a well-formed document id that no upload produced
UnknownId == toHex(Sha256(<<0>>))

\* the <doc-id> arguments: the ids of the metadata files, their first 16
\* characters alone, and the unknown id
DocIdArgs ==
    {metaFiles[s].documentId : s \in DOMAIN metaFiles}
    \cup DOMAIN metaFiles \cup {UnknownId}

\* the <pubkey> arguments: the public keys of the identities and a
\* truncated one
PubkeyArgs ==
    {getPublicKeyHex(kp) : kp \in KeyPairs}
    \cup {SubSeq(getPublicKeyHex(generateKeyPair(1)), 1, 62)}

\* the document id derived from the content hash alone
documentIdOf_content(contentHash, salt) == Sha256(contentHash)

\* createHash("sha256").update(contentHash).update(randomBytes(16)).digest():
\* salt is the outcome of randomBytes(16)
documentIdOf(contentHash, salt) == Sha256(contentHash \o salt)

InitCli ==
    /\ keyFiles = [k \in 1..NumIdentities |->
                      serializeKeyPair(generateKeyPair(k))]
    /\ metaFiles = <<>>
    /\ storage = <<>>
    /\ entropy = 0
    /\ accessLog = <<>>
    /\ uploaded = <<>>
    /\ lastRun = Run("none")
    /\ CipherIdle
    /\ KeysIdle
    /\ HashIdle
    /\ CallsIdle
    /\ WrapIdle
    /\ DeployIdle

\* upload <file> <seed> [-k path] [--dry-run]; the run takes the next draw
\* of the random source for the document key, the nonces and the id
Upload ==
    /\ lastRun.cmd = "none"
    /\ \E file \in Files \cup {NoFile}, path \in KeyPaths :
        LET kp == loadKeyPair(keyFiles, path)
            run == [Run("upload") EXCEPT !.file = file, !.keypair = path]
        IN
        IF file = NoFile
        THEN /\ lastRun' = [Run("upload") EXCEPT !.exit = 1,
                                                 !.error = "File not found"]
             /\ UNCHANGED <<metaFiles, storage, entropy, uploaded>>
        ELSE IF ~kp.ok
        THEN /\ lastRun' = [run EXCEPT !.exit = 1, !.error = kp.error]
             /\ UNCHANGED <<metaFiles, storage, entropy, uploaded>>
        ELSE
        /\ entropy < NumDraws
        /\ entropy' = entropy + 1
        /\ \E dryRun \in BOOLEAN :
           \E fault \in IF dryRun THEN StorageFaults
                        ELSE StorageFaults \cup LedgerFaults :
            LET keypair == kp.value
                r == entropy + 1
                contentHash == computeContentHash(file)
                documentKey == generateDocumentKey(r)
                encrypted == encryptFile(file, documentKey, randomBytes(12, r))
                packed == packEncryptedData(encrypted.value)
                config == validateStorageConfig(fault # "config")
                up == uploadToStorage(storage, packed, fault # "storage")
                documentId == documentIdOf(contentHash, randomBytes(16, r))
                ownerCommitment == computeOwnerCommitment(keypair.secretKey)
                wrappedKey == wrapDocumentKey(documentKey, keypair.publicKey,
                                              keypair, randomBytes(24, r))
                session ==
                    LedgerSession("registerDocument", fault,
                        LAMBDA w : registerDocument(w, documentId,
                                       contentHash, up.res.value,
                                       ownerCommitment.value))
                ledgerCalls == IF dryRun THEN <<>> ELSE session.calls
                registered ==
                    IF dryRun THEN Null
                    ELSE Ok([documentId |-> documentId,
                             contentHash |-> contentHash,
                             storageCid |-> up.res.value,
                             ownerCommitment |-> ownerCommitment.value])
                idHex == toHex(documentId)
                meta == [documentId |-> idHex,
                         contentHash |-> toHex(contentHash),
                         storageCid |-> up.res.value,
                         wrappedKey |-> serializeWrappedKey(wrappedKey.value)]
                ran == [run EXCEPT !.dryRun = dryRun, !.fault = fault]
            IN
            IF ~config.ok
            THEN /\ lastRun' = [ran EXCEPT !.exit = 1, !.error = config.error]
                 /\ UNCHANGED <<metaFiles, storage, uploaded>>
            ELSE IF ~up.res.ok
            THEN /\ lastRun' = [ran EXCEPT !.exit = 1,
                                           !.error = up.res.error,
                                           !.calls = <<"uploadToStorage">>]
                 /\ UNCHANGED <<metaFiles, storage, uploaded>>
            ELSE IF ~dryRun /\ ~session.ok
            THEN /\ lastRun' = [ran EXCEPT !.exit = 1,
                                           !.error = session.error,
                                           !.calls = <<"uploadToStorage">>
                                                     \o session.calls]
                 /\ storage' = up.store
                 /\ UNCHANGED <<metaFiles, uploaded>>
            ELSE /\ lastRun' = [ran EXCEPT !.documentId = idHex,
                                           !.registered = registered,
                                           !.calls = <<"uploadToStorage">>
                                                     \o ledgerCalls
                                                     \o <<"writeFile">>]
                 /\ storage' = up.store
                 /\ metaFiles' = (Slice(idHex, 16) :> meta) @@ metaFiles
                 /\ uploaded' = (idHex :> [file |-> file,
                                           documentKey |-> documentKey,
                                           owner |-> path]) @@ uploaded
    /\ UNCHANGED <<keyFiles, accessLog>>
    /\ UNCHANGED <<cipherVars, keyVars, hashVars, callVars, wrapVars,
                   deployVars>>

\* download <doc-id> <seed> [-k path]
Download ==
    /\ lastRun.cmd = "none"
    /\ \E docId \in DocIdArgs :
        LET metaPath == findMetadataFile(metaFiles, docId)
            run == [Run("download") EXCEPT !.docId = docId]
        IN
        IF ~metaPath.ok
        THEN lastRun' = [run EXCEPT !.exit = 1,
                                    !.error = "Metadata not found"]
        ELSE
        \E path \in KeyPaths :
            LET meta == metaFiles[metaPath.value]
                kp == loadKeyPair(keyFiles, path)
            IN
            IF ~kp.ok
            THEN lastRun' = [run EXCEPT !.keypair = path, !.exit = 1,
                                        !.error = kp.error]
            ELSE
            \E fault \in {"none", "storage", "corrupt"} :
                LET encrypted ==
                        downloadFromStorage(storage, meta.storageCid, fault)
                    unpacked == unpackEncryptedData(encrypted.value)
                    docKey ==
                        unwrapDocumentKey(
                            deserializeWrappedKey(meta.wrappedKey),
                            kp.value.secretKey)
                    decrypted == decryptFile(unpacked.value, docKey.value)
                    ran == [run EXCEPT !.keypair = path, !.fault = fault,
                                       !.exit = 1,
                                       !.calls = <<"downloadFromStorage">>]
                IN  lastRun' =
                        IF ~encrypted.ok
                        THEN [ran EXCEPT !.error = encrypted.error]
                        ELSE IF ~unpacked.ok
                        THEN [ran EXCEPT !.error = unpacked.error]
                        ELSE IF ~docKey.ok
                        THEN [ran EXCEPT !.error = docKey.error]
                        ELSE IF ~decrypted.ok
                        THEN [ran EXCEPT !.error = decrypted.error]
                        ELSE [ran EXCEPT !.exit = 0, !.wrote = decrypted,
                                         !.calls = <<"downloadFromStorage",
                                                     "writeFile">>]
    /\ UNCHANGED <<keyFiles, metaFiles, storage, entropy, accessLog, uploaded>>
    /\ UNCHANGED <<cipherVars, keyVars, hashVars, callVars, wrapVars,
                   deployVars>>

\* verify <file> <doc-id> <seed>
Verify ==
    /\ lastRun.cmd = "none"
    /\ \E file \in Files, docId \in DocIdArgs, fault \in LedgerFaults :
        LET hash == computeContentHash(file)
            session ==
                LedgerSession("verifyDocument", fault,
                    LAMBDA w : verifyDocument(w, fromHex(docId), hash))
            run == [Run("verify") EXCEPT !.file = file, !.docId = docId,
                                         !.fault = fault,
                                         !.calls = session.calls]
        IN  lastRun' =
                IF ~session.ok
                THEN [run EXCEPT !.exit = 1, !.error = session.error]
                ELSE [run EXCEPT !.report = IF session.result.value
                                            THEN "VERIFIED" ELSE "FAILED"]
    /\ UNCHANGED <<keyFiles, metaFiles, storage, entropy, accessLog, uploaded>>
    /\ UNCHANGED <<cipherVars, keyVars, hashVars, callVars, wrapVars,
                   deployVars>>

\* share grant <doc-id> <pubkey> <seed> [-k path]; a run that comes to wrap
\* the document key takes the next draw of the random source for the nonce
ShareGrant ==
    /\ lastRun.cmd = "none"
    /\ \E docId \in DocIdArgs :
        LET metaPath == findMetadataFile(metaFiles, docId)
            run == [Run("grant") EXCEPT !.docId = docId]
        IN
        IF ~metaPath.ok
        THEN /\ lastRun' = [run EXCEPT !.exit = 1,
                                       !.error = "Metadata not found"]
             /\ UNCHANGED <<entropy, accessLog>>
        ELSE
        \E path \in KeyPaths :
            LET meta == metaFiles[metaPath.value]
                ownerKp == loadKeyPair(keyFiles, path)
                docKey ==
                    unwrapDocumentKey(deserializeWrappedKey(meta.wrappedKey),
                                      ownerKp.value.secretKey)
                ran == [run EXCEPT !.keypair = path]
            IN
            IF ~ownerKp.ok
            THEN /\ lastRun' = [ran EXCEPT !.exit = 1, !.error = ownerKp.error]
                 /\ UNCHANGED <<entropy, accessLog>>
            ELSE IF ~docKey.ok
            THEN /\ lastRun' = [ran EXCEPT !.exit = 1, !.error = docKey.error]
                 /\ UNCHANGED <<entropy, accessLog>>
            ELSE
            \E pubkey \in PubkeyArgs :
                LET recipientPk == parsePublicKeyHex(pubkey) IN
                IF ~recipientPk.ok
                THEN /\ lastRun' = [ran EXCEPT !.pubkey = pubkey, !.exit = 1,
                                               !.error = recipientPk.error]
                     /\ UNCHANGED <<entropy, accessLog>>
                ELSE
                /\ entropy < NumDraws
                /\ entropy' = entropy + 1
                /\ \E fault \in LedgerFaults :
                    LET wrapped ==
                            wrapDocumentKey(docKey.value, recipientPk.value,
                                            ownerKp.value,
                                            randomBytes(24, entropy + 1))
                        commitment == computeOwnerCommitment(recipientPk.value)
                        ser == serializeWrappedKey(wrapped.value)
                        args == [documentId |-> fromHex(docId),
                                 recipientCommitment |-> commitment.value,
                                 encryptedKey |-> ser.encryptedKey,
                                 nonce |-> ser.nonce,
                                 senderPublicKey |-> ser.senderPublicKey]
                        session ==
                            LedgerSession("grantAccess", fault,
                                LAMBDA w : grantAccess(w, args.documentId,
                                               args.recipientCommitment,
                                               args.encryptedKey, args.nonce,
                                               args.senderPublicKey))
                        got == [ran EXCEPT !.pubkey = pubkey, !.fault = fault]
                    IN
                    IF ~wrapped.ok
                    THEN /\ lastRun' = [got EXCEPT !.exit = 1,
                                                   !.error = wrapped.error]
                         /\ UNCHANGED accessLog
                    ELSE IF ~commitment.ok
                    THEN /\ lastRun' = [got EXCEPT !.exit = 1,
                                                   !.error = commitment.error,
                                                   !.wrapped = wrapped]
                         /\ UNCHANGED accessLog
                    ELSE IF ~session.ok
                    THEN /\ lastRun' = [got EXCEPT !.exit = 1,
                                                   !.error = session.error,
                                                   !.calls = session.calls,
                                                   !.wrapped = wrapped]
                         /\ UNCHANGED accessLog
                    ELSE /\ lastRun' = [got EXCEPT !.calls = session.calls,
                                                   !.wrapped = wrapped,
                                                   !.granted = Ok(args)]
                         /\ accessLog' =
                                (<<args.documentId, args.recipientCommitment>>
                                    :> "granted") @@ accessLog
    /\ UNCHANGED <<keyFiles, metaFiles, storage, uploaded>>
    /\ UNCHANGED <<cipherVars, keyVars, hashVars, callVars, wrapVars,
                   deployVars>>

\* share revoke <doc-id> <pubkey> <seed>
ShareRevoke ==
    /\ lastRun.cmd = "none"
    /\ \E docId \in DocIdArgs, pubkey \in PubkeyArgs :
        LET recipientPk == parsePublicKeyHex(pubkey)
            commitment == computeOwnerCommitment(recipientPk.value)
            run == [Run("revoke") EXCEPT !.docId = docId, !.pubkey = pubkey]
        IN
        IF ~recipientPk.ok
        THEN /\ lastRun' = [run EXCEPT !.exit = 1, !.error = recipientPk.error]
             /\ UNCHANGED accessLog
        ELSE IF ~commitment.ok
        THEN /\ lastRun' = [run EXCEPT !.exit = 1, !.error = commitment.error]
             /\ UNCHANGED accessLog
        ELSE
        \E fault \in LedgerFaults :
            LET pair == <<fromHex(docId), commitment.value>>
                session ==
                    LedgerSession("revokeAccess", fault,
                        LAMBDA w : revokeAccess(w, pair[1], pair[2]))
                ran == [run EXCEPT !.fault = fault, !.calls = session.calls]
            IN
            IF ~session.ok
            THEN /\ lastRun' = [ran EXCEPT !.exit = 1, !.error = session.error]
                 /\ UNCHANGED accessLog
            ELSE /\ lastRun' = ran
                 /\ accessLog' = IF pair \in DOMAIN accessLog
                                 THEN [accessLog EXCEPT ![pair] = "revoked"]
                                 ELSE accessLog
    /\ UNCHANGED <<keyFiles, metaFiles, storage, entropy, uploaded>>
    /\ UNCHANGED <<cipherVars, keyVars, hashVars, callVars, wrapVars,
                   deployVars>>

\* a client of the wrapper asking for the access of a recipient to a
\* document: hasAccess and getAccessGrant on a connected wrapper
AccessQuery ==
    /\ lastRun.cmd = "none"
    /\ \E docId \in DocIdArgs, kp \in KeyPairs :
        LET commitment == computePublicKeyCommitment(kp.publicKey)
            has == LedgerSession("hasAccess", "none",
                       LAMBDA w : hasAccess(w, fromHex(docId), commitment))
            grant == LedgerSession("getAccessGrant", "none",
                         LAMBDA w : getAccessGrant(w, fromHex(docId),
                                                   commitment))
        IN  lastRun' = [Run("query") EXCEPT
                            !.docId = docId,
                            !.pubkey = getPublicKeyHex(kp),
                            !.calls = has.calls,
                            !.access = IF has.result.value
                                       THEN "true" ELSE "false",
                            !.grant = grant.result.value]
    /\ UNCHANGED <<keyFiles, metaFiles, storage, entropy, accessLog, uploaded>>
    /\ UNCHANGED <<cipherVars, keyVars, hashVars, callVars, wrapVars,
                   deployVars>>

\* the process of the command ends; the next command line starts a new one
Exit ==
    /\ lastRun.cmd # "none"
    /\ lastRun' = Run("none")
    /\ UNCHANGED <<keyFiles, metaFiles, storage, entropy, accessLog, uploaded>>
    /\ UNCHANGED <<cipherVars, keyVars, hashVars, callVars, wrapVars,
                   deployVars>>

\* the stand-ins of the primitives separate what the model samples: the
\* identities, the document keys, the files, and the ids, payloads and
\* metadata files of the uploaded documents
PrimitivesIdeal ==
    /\ \A a, b \in KeyPairs :
          a # b => /\ a.publicKey # b.publicKey
                   /\ computePublicKeyCommitment(a.publicKey)
                      # computePublicKeyCommitment(b.publicKey)
    /\ \A r, s \in 1..NumDraws :
          r # s => generateDocumentKey(r) # generateDocumentKey(s)
    /\ \A f, g \in Files :
          f # g => computeContentHash(f) # computeContentHash(g)
    /\ \A d \in DOMAIN uploaded :
          /\ Slice(d, 16) \in DOMAIN metaFiles
          /\ metaFiles[Slice(d, 16)].documentId = d
          /\ metaFiles[Slice(d, 16)].storageCid \in DOMAIN storage
          /\ \A e \in DOMAIN uploaded :
                d # e => metaFiles[Slice(d, 16)].storageCid
                         # metaFiles[Slice(e, 16)].storageCid

NextCli ==
    \/ Upload
    \/ Download
    \/ Verify
    \/ ShareGrant
    \/ ShareRevoke
    \/ AccessQuery
    \/ Exit

SpecCli == InitCli /\ [][NextCli]_vars

-----------------------------------------------------------------------------
\* the metadata record the last command found for its <doc-id>
RunFoundMeta == Slice(lastRun.docId, 16) \in DOMAIN metaFiles

RunMeta == metaFiles[Slice(lastRun.docId, 16)]

\* the last command was given the id of an uploaded document, and the
\* metadata file of that upload is the one in place
RunOnDocument ==
    /\ lastRun.docId \in DOMAIN uploaded
    /\ RunFoundMeta
    /\ RunMeta.documentId = lastRun.docId

(* C6: verify reports VERIFIED if and only if the hash of the candidate    *)
(* file equals the contentHash recorded at upload for the document id;     *)
(* for a file whose hash differs it reports FAILED.                        *)
C6_VerifyIffHashMatches ==
    (lastRun.cmd = "verify" /\ lastRun.exit = 0 /\ RunOnDocument)
    => /\ lastRun.report \in {"VERIFIED", "FAILED"}
       /\ lastRun.report = "VERIFIED"
          <=> computeContentHash(lastRun.file) = fromHex(RunMeta.contentHash)

(* C7: share grant with a key pair that is not the one the stored wrapped  *)
(* key of the document was made for ends in the unwrap error, produces no  *)
(* wrapped key for the recipient and never calls grantAccess.              *)
C7_GrantFailsClosed ==
    (/\ lastRun.cmd = "grant"
     /\ RunFoundMeta
     /\ lastRun.keypair \in DOMAIN keyFiles
     /\ lastRun.keypair # uploaded[RunMeta.documentId].owner)
    => /\ lastRun.exit = 1
       /\ lastRun.error = UnwrapError
       /\ ~lastRun.wrapped.ok
       /\ ~lastRun.granted.ok
       /\ \A i \in DOMAIN lastRun.calls : lastRun.calls[i] # "grantAccess"
       /\ lastRun.calls = <<>>

C7_Witness ==
    /\ lastRun.cmd = "grant"
    /\ RunOnDocument
    /\ lastRun.keypair \in DOMAIN keyFiles
    /\ lastRun.keypair # uploaded[lastRun.docId].owner
    /\ lastRun.exit = 1

(* C8: a successful share grant of document d to the public key R passes   *)
(* to grantAccess d, the commitment of R and a wrapped key that unwraps    *)
(* under R's secret key to the document key of d, the key under which the  *)
(* stored payload of d decrypts to the uploaded file.                      *)
C8_GrantDelivers ==
    (/\ lastRun.cmd = "grant"
     /\ lastRun.exit = 0
     /\ RunOnDocument)
    => /\ lastRun.granted.ok
       /\ \E R \in KeyPairs :
            LET g == lastRun.granted.value
                key == unwrapDocumentKey(
                           deserializeWrappedKey(
                               [encryptedKey |-> g.encryptedKey,
                                nonce |-> g.nonce,
                                senderPublicKey |-> g.senderPublicKey]),
                           R.secretKey)
                payload == unpackEncryptedData(storage[RunMeta.storageCid])
            IN  /\ getPublicKeyHex(R) = lastRun.pubkey
                /\ toHex(g.documentId) = lastRun.docId
                /\ g.recipientCommitment
                   = computePublicKeyCommitment(R.publicKey)
                /\ key = Ok(uploaded[lastRun.docId].documentKey)
                /\ payload.ok
                /\ decryptFile(payload.value, key.value)
                   = Ok(uploaded[lastRun.docId].file)

\* a grant to a recipient other than the owner
C8_Witness ==
    /\ lastRun.cmd = "grant"
    /\ lastRun.exit = 0
    /\ RunOnDocument
    /\ lastRun.granted.ok
    /\ lastRun.pubkey # RunMeta.wrappedKey.senderPublicKey

\* the pair (documentId, recipientCommitment) the last command was about
RunPair ==
    <<fromHex(lastRun.docId),
      computePublicKeyCommitment(fromHex(lastRun.pubkey))>>

(* C9: after share revoke succeeded for a recipient who had been granted   *)
(* access to a document, hasAccess is false and getAccessGrant returns no  *)
(* wrapped key for that document and recipient.                            *)
C9_RevokeRemovesAccess ==
    (/\ lastRun.cmd = "query"
     /\ RunPair \in DOMAIN accessLog
     /\ accessLog[RunPair] = "revoked")
    => /\ lastRun.access = "false"
       /\ lastRun.grant = "null"

(* C10: after upload of a file with a key pair, download of the document   *)
(* id with the same key pair writes exactly the bytes of the file, when    *)
(* the storage returns the uploaded bytes and the metadata file of the     *)
(* upload is the one read back.                                            *)
C10_DownloadRestores ==
    (/\ lastRun.cmd = "download"
     /\ RunOnDocument
     /\ lastRun.keypair = uploaded[lastRun.docId].owner
     /\ lastRun.fault = "none")
    => /\ lastRun.exit = 0
       /\ lastRun.wrote = Ok(uploaded[lastRun.docId].file)

C10_Witness ==
    /\ lastRun.cmd = "download"
    /\ RunOnDocument
    /\ lastRun.keypair = uploaded[lastRun.docId].owner
    /\ lastRun.fault = "none"
    /\ lastRun.wrote.ok
    /\ Len(lastRun.wrote.value) = 2

C10_WitnessEmpty ==
    /\ lastRun.cmd = "download"
    /\ RunOnDocument
    /\ lastRun.wrote = Ok(<<>>)
    /\ lastRun.exit = 0

(* C11: no two uploads produce the same documentId, two uploads of        *)
(* byte-identical content included: the id an upload reports is the id of  *)
(* no document uploaded before, so an id names exactly one document.       *)
C11_FreshDocumentId ==
    [][(lastRun'.cmd = "upload" /\ lastRun'.exit = 0)
        => /\ lastRun'.documentId \notin DOMAIN uploaded
           /\ DOMAIN uploaded' = DOMAIN uploaded \cup {lastRun'.documentId}
           /\ \A d \in DOMAIN uploaded : uploaded'[d] = uploaded[d]]_vars

\* two documents of byte-identical content have been uploaded
C11_Witness ==
    \E d, e \in DOMAIN uploaded :
        /\ d # e
        /\ uploaded[d].file = uploaded[e].file
        /\ uploaded[d].owner = uploaded[e].owner

\* the metadata record and the stored payload of the uploaded document d
MetaOf(d) == metaFiles[Slice(d, 16)]

PayloadOf(d) == storage[MetaOf(d).storageCid]

(* C12: the contentHash that upload writes to the metadata record and      *)
(* passes to registerDocument is the hash of the plaintext bytes of the    *)
(* file, not of the stored ciphertext; two uploads of the same content     *)
(* record the same contentHash while their document keys, nonces and       *)
(* stored payloads differ.                                                 *)
C12_HashOfPlaintext ==
    /\ (lastRun.cmd = "upload" /\ lastRun.exit = 0) =>
          LET d == lastRun.documentId
              payload == unpackEncryptedData(PayloadOf(d)).value
          IN  /\ MetaOf(d).contentHash = toHex(Sha256(lastRun.file))
              /\ ~lastRun.dryRun =>
                     /\ lastRun.registered.ok
                     /\ lastRun.registered.value.contentHash
                        = Sha256(lastRun.file)
              /\ fromHex(MetaOf(d).contentHash) # Sha256(PayloadOf(d))
              /\ lastRun.file # <<>> =>
                     fromHex(MetaOf(d).contentHash)
                     # Sha256(payload.ciphertext)
    /\ \A d, e \in DOMAIN uploaded :
          (d # e /\ uploaded[d].file = uploaded[e].file) =>
              /\ MetaOf(d).contentHash = MetaOf(e).contentHash
              /\ uploaded[d].documentKey # uploaded[e].documentKey
              /\ SubSeq(PayloadOf(d), 1, 12) # SubSeq(PayloadOf(e), 1, 12)
              /\ PayloadOf(d) # PayloadOf(e)

\* a second upload of the same non-empty content has registered its hash
C12_Witness ==
    /\ lastRun.cmd = "upload"
    /\ lastRun.exit = 0
    /\ ~lastRun.dryRun
    /\ lastRun.file # <<>>
    /\ \E e \in DOMAIN uploaded :
          e # lastRun.documentId /\ uploaded[e].file = lastRun.file

\* string t occurs in string s
Contains(s, t) ==
    \E i \in 0..(Len(s) - Len(t)) : SubSeq(s, i + 1, i + Len(t)) = t

\* the document keys generated so far: every run that draws from the random
\* source takes the next draw
KeysGenerated == {generateDocumentKey(r) : r \in 1..entropy}

\* the byte strings and the hex strings that the commands have written to
\* the metadata files and the output file, uploaded to storage and passed to
\* the ledger calls
BytesOut ==
    {storage[c] : c \in DOMAIN storage}
    \cup {MetaOf(s).storageCid : s \in DOMAIN metaFiles}
    \cup (IF lastRun.registered.ok
          THEN {lastRun.registered.value.documentId,
                lastRun.registered.value.contentHash,
                lastRun.registered.value.storageCid,
                lastRun.registered.value.ownerCommitment}
          ELSE {})
    \cup (IF lastRun.granted.ok
          THEN {lastRun.granted.value.documentId,
                lastRun.granted.value.recipientCommitment}
          ELSE {})
    \cup (IF lastRun.wrote.ok THEN {lastRun.wrote.value} ELSE {})

HexOut ==
    UNION {{metaFiles[s].documentId, metaFiles[s].contentHash,
            metaFiles[s].wrappedKey.encryptedKey,
            metaFiles[s].wrappedKey.nonce,
            metaFiles[s].wrappedKey.senderPublicKey} : s \in DOMAIN metaFiles}
    \cup (IF lastRun.granted.ok
          THEN {lastRun.granted.value.encryptedKey,
                lastRun.granted.value.nonce,
                lastRun.granted.value.senderPublicKey}
          ELSE {})

(* C13: the unwrapped document key is never persisted or sent out: what    *)
(* upload, share grant and download write to the metadata files, upload to *)
(* storage and pass to the ledger calls does not contain the bytes of a    *)
(* document key, nor their hex form; the key is there in wrapped form.     *)
C13_KeyOnlyWrapped ==
    /\ \A k \in KeysGenerated :
          /\ \A b \in BytesOut : ~Contains(b, k)
          /\ \A h \in HexOut : ~Contains(h, toHex(k))
    /\ \A d \in DOMAIN uploaded :
          unwrapDocumentKey(deserializeWrappedKey(MetaOf(d).wrappedKey),
                            deserializeKeyPair(
                                keyFiles[uploaded[d].owner]).secretKey)
          = Ok(uploaded[d].documentKey)

\* the key of an uploaded and registered document was wrapped for a
\* recipient and passed to grantAccess
C13_Witness ==
    /\ lastRun.cmd = "grant"
    /\ lastRun.exit = 0
    /\ lastRun.granted.ok
    /\ RunOnDocument
    /\ uploaded[lastRun.docId].documentKey \in KeysGenerated

\* an upload has stored the payload, registered the document and written
\* the metadata file
C13_WitnessUpload ==
    /\ lastRun.cmd = "upload"
    /\ lastRun.exit = 0
    /\ lastRun.registered.ok
    /\ lastRun.file # <<>>

-----------------------------------------------------------------------------
(* The call harness: a sequence of at most MaxCalls calls of the exported  *)
(* functions of src/utils/encryption.ts, src/utils/keys.ts and             *)
(* src/api/witnesses.ts on sampled arguments.  Every call is logged with   *)
(* its arguments and its result; a call that draws from the random source  *)
(* takes the next draw.                                                    *)

Call(fn, args, out) == [fn |-> fn, args |-> args, out |-> out]

\* keys of 0, 16, 31, 32 and 33 bytes
CallKeys == {KeyBytes(n, 1) : n \in {0, 16, 31, 32, 33}} \cup {KeyBytes(32, 2)}

\* plaintexts
CallData == {<<>>, <<200, 7>>}

\* packed payloads of 0, 1, 27, 28, 29 and 30 bytes
CallPacked == {randomBytes(n, 3) : n \in {0, 1, 27, 28, 29, 30}}

\* string h with its character i replaced by one that is no hex digit
NonHexAt(h, i) == [h EXCEPT ![i] = 16]

\* hex strings: the 64 characters of a public key; the same cut to 0, 62
\* and 63 characters or extended to 66; the same with a character that is
\* no hex digit in the first, a middle or the last place
CallHex ==
    LET h == getPublicKeyHex(generateKeyPair(1))
    IN  {h, <<>>, SubSeq(h, 1, 62), SubSeq(h, 1, 63), h \o <<0, 10>>,
         NonHexAt(h, 1), NonHexAt(h, 34), NonHexAt(h, 64)}

\* the keys given to the commitments: the secret and public keys of the
\* identities and a key of 16 bytes
CallCommitKeys ==
    {kp.secretKey : kp \in KeyPairs} \cup {kp.publicKey : kp \in KeyPairs}
        \cup {KeyBytes(16, 1)}

InitCalls ==
    /\ callLog = <<>>
    /\ drawn = 0
    /\ CipherIdle
    /\ KeysIdle
    /\ HashIdle
    /\ CliIdle
    /\ WrapIdle
    /\ DeployIdle

\* encryptData(data, key): the call draws its nonce unless it throws first
CallEncryptData ==
    /\ Len(callLog) < MaxCalls
    /\ \E data \in CallData, key \in CallKeys :
        LET out == encryptData(data, key, randomBytes(12, drawn + 1))
        IN  /\ callLog' = Append(callLog,
                              Call("encryptData",
                                   [data |-> data, key |-> key], out))
            /\ drawn' = IF out.ok THEN drawn + 1 ELSE drawn
    /\ UNCHANGED <<cipherVars, keyVars, hashVars, cliVars, wrapVars,
                   deployVars>>

\* decryptData(payload, key) of a payload that encryptData returned, as
\* returned or with a bit of its tag inverted
CallDecryptData ==
    /\ Len(callLog) < MaxCalls
    /\ \E i \in DOMAIN callLog, key \in CallKeys, flip \in BOOLEAN :
        /\ callLog[i].fn = "encryptData"
        /\ callLog[i].out.ok
        /\ LET p == callLog[i].out.value
               payload == IF flip
                          THEN [p EXCEPT !.authTag = FlipBitAt(p.authTag, 16, 0)]
                          ELSE p
           IN  callLog' = Append(callLog,
                              Call("decryptData",
                                   [payload |-> payload, key |-> key,
                                    intact |-> ~flip,
                                    encryptKey |-> callLog[i].args.key],
                                   decryptData(payload, key)))
    /\ UNCHANGED <<drawn, cipherVars, keyVars, hashVars, cliVars, wrapVars,
                   deployVars>>

CallUnpackEncryptedData ==
    /\ Len(callLog) < MaxCalls
    /\ \E packed \in CallPacked :
          callLog' = Append(callLog,
                         Call("unpackEncryptedData", [packed |-> packed],
                              unpackEncryptedData(packed)))
    /\ UNCHANGED <<drawn, cipherVars, keyVars, hashVars, cliVars, wrapVars,
                   deployVars>>

CallParsePublicKeyHex ==
    /\ Len(callLog) < MaxCalls
    /\ \E hex \in CallHex :
          callLog' = Append(callLog,
                         Call("parsePublicKeyHex", [hex |-> hex],
                              parsePublicKeyHex(hex)))
    /\ UNCHANGED <<drawn, cipherVars, keyVars, hashVars, cliVars, wrapVars,
                   deployVars>>

\* deserializeKeyPair of a pair whose public key or secret key is a sampled
\* hex string
CallDeserializeKeyPair ==
    /\ Len(callLog) < MaxCalls
    /\ \E hex \in CallHex, which \in {"publicKey", "secretKey"} :
        LET good == serializeKeyPair(generateKeyPair(1))
            serialized == [good EXCEPT ![which] = hex]
        IN  callLog' = Append(callLog,
                           Call("deserializeKeyPair",
                                [serialized |-> serialized],
                                Ok(deserializeKeyPair(serialized))))
    /\ UNCHANGED <<drawn, cipherVars, keyVars, hashVars, cliVars, wrapVars,
                   deployVars>>

CallComputeOwnerCommitment ==
    /\ Len(callLog) < MaxCalls
    /\ \E key \in CallCommitKeys :
          callLog' = Append(callLog,
                         Call("computeOwnerCommitment", [key |-> key],
                              computeOwnerCommitment(key)))
    /\ UNCHANGED <<drawn, cipherVars, keyVars, hashVars, cliVars, wrapVars,
                   deployVars>>

CallComputePublicKeyCommitment ==
    /\ Len(callLog) < MaxCalls
    /\ \E key \in CallCommitKeys :
          callLog' = Append(callLog,
                         Call("computePublicKeyCommitment", [key |-> key],
                              Ok(computePublicKeyCommitment(key))))
    /\ UNCHANGED <<drawn, cipherVars, keyVars, hashVars, cliVars, wrapVars,
                   deployVars>>

\* wrapDocumentKey(documentKey, recipientPublicKey, senderKeypair) by
\* identity 1 for identity 2: the call draws its nonce unless the length
\* check throws first
CallWrapDocumentKey ==
    /\ Len(callLog) < MaxCalls
    /\ \E documentKey \in CallKeys :
        LET out == wrapDocumentKey(documentKey, generateKeyPair(2).publicKey,
                                   generateKeyPair(1),
                                   randomBytes(24, drawn + 1))
        IN  /\ callLog' = Append(callLog,
                              Call("wrapDocumentKey",
                                   [key |-> documentKey], out))
            /\ drawn' = IF out = Err("Document key must be 32 bytes")
                        THEN drawn ELSE drawn + 1
    /\ UNCHANGED <<cipherVars, keyVars, hashVars, cliVars, wrapVars,
                   deployVars>>

CallGenerateKeyPairFromSeed ==
    /\ Len(callLog) < MaxCalls
    /\ \E seed \in CallKeys :
          callLog' = Append(callLog,
                         Call("generateKeyPairFromSeed", [key |-> seed],
                              generateKeyPairFromSeed(seed)))
    /\ UNCHANGED <<drawn, cipherVars, keyVars, hashVars, cliVars, wrapVars,
                   deployVars>>

\* the calls of the log that took a draw of the random source
DrawingCalls ==
    {i \in DOMAIN callLog :
        /\ callLog[i].fn \in {"encryptData", "wrapDocumentKey"}
        /\ Len(callLog[i].args.key) = 32}

NextCalls ==
    \/ CallEncryptData
    \/ CallDecryptData
    \/ CallUnpackEncryptedData
    \/ CallParsePublicKeyHex
    \/ CallDeserializeKeyPair
    \/ CallComputeOwnerCommitment
    \/ CallComputePublicKeyCommitment
    \/ CallWrapDocumentKey
    \/ CallGenerateKeyPairFromSeed

SpecCalls == InitCalls /\ [][NextCalls]_vars

-----------------------------------------------------------------------------
\* calls i and j of the log are two calls of fn, i before j
TwoCalls(fn, i, j) ==
    /\ i \in DOMAIN callLog
    /\ j \in DOMAIN callLog
    /\ i < j
    /\ callLog[i].fn = fn
    /\ callLog[j].fn = fn

(* C14: over a sequence of encryptData calls with the same key, no two     *)
(* returned payloads carry the same nonce, and every nonce has 12 bytes.   *)
C14_NoncesDistinct ==
    \A i, j \in DOMAIN callLog :
        (/\ TwoCalls("encryptData", i, j)
         /\ callLog[i].out.ok
         /\ callLog[j].out.ok
         /\ callLog[i].args.key = callLog[j].args.key)
        => /\ callLog[i].out.value.iv # callLog[j].out.value.iv
           /\ Len(callLog[i].out.value.iv) = 12
           /\ Len(callLog[j].out.value.iv) = 12

\* the same plaintext was encrypted twice under the same key
C14_Witness ==
    \E i, j \in DOMAIN callLog :
        /\ TwoCalls("encryptData", i, j)
        /\ callLog[i].out.ok
        /\ callLog[j].out.ok
        /\ callLog[i].args = callLog[j].args

\* the functions that compute the commitment of a key
CommitFns == {"computeOwnerCommitment", "computePublicKeyCommitment"}

(* C15: the commitment is deterministic and collision-free on keys: two    *)
(* calls with the same 32-byte key return the same 32-byte commitment, two *)
(* calls with different 32-byte keys return different commitments.         *)
C15_CommitInjective ==
    \A fn \in CommitFns : \A i, j \in DOMAIN callLog :
        (/\ TwoCalls(fn, i, j)
         /\ Len(callLog[i].args.key) = 32
         /\ Len(callLog[j].args.key) = 32)
        => /\ callLog[i].out.ok
           /\ callLog[j].out.ok
           /\ Len(callLog[i].out.value) = 32
           /\ (callLog[i].args.key = callLog[j].args.key)
              <=> (callLog[i].out.value = callLog[j].out.value)

\* the owner commitments of two different keys have been computed
C15_Witness ==
    \E i, j \in DOMAIN callLog :
        /\ TwoCalls("computeOwnerCommitment", i, j)
        /\ callLog[i].out.ok
        /\ callLog[j].out.ok
        /\ callLog[i].args.key # callLog[j].args.key

\* the owner commitment of one key has been computed twice
C15_WitnessSame ==
    \E i, j \in DOMAIN callLog :
        /\ TwoCalls("computeOwnerCommitment", i, j)
        /\ callLog[i].out.ok
        /\ callLog[i].args.key = callLog[j].args.key

\* hex string h decodes to exactly 32 bytes: 64 characters, all hex digits
Decodes32(h) == Len(h) = 64 /\ \A i \in 1..64 : h[i] <= 15

(* C16: parsing a key from hex fails with the invalid-encoding error for   *)
(* every string that does not hex-decode to exactly 32 bytes, a string of  *)
(* 64 characters with a non-hex character included, and never returns a    *)
(* key of another length; so for parsePublicKeyHex and for the two keys of *)
(* a pair read back by deserializeKeyPair.                                 *)
C16_ParseRejects ==
    \A i \in DOMAIN callLog :
        /\ callLog[i].fn = "parsePublicKeyHex" =>
              /\ ~Decodes32(callLog[i].args.hex) =>
                     callLog[i].out = Err("Invalid public key: must be 64 hex characters (32 bytes)")
              /\ callLog[i].out.ok => Len(callLog[i].out.value) = 32
        /\ callLog[i].fn = "deserializeKeyPair" =>
              /\ (~Decodes32(callLog[i].args.serialized.publicKey)
                  \/ ~Decodes32(callLog[i].args.serialized.secretKey))
                     => ~callLog[i].out.ok
              /\ callLog[i].out.ok =>
                     /\ Len(callLog[i].out.value.publicKey) = 32
                     /\ Len(callLog[i].out.value.secretKey) = 32

\* what holds of parsePublicKeyHex: a string of any length but 64 is
\* rejected with the error, a string of 64 hex digits gives its 32 bytes
C16_LengthChecked ==
    \A i \in DOMAIN callLog :
        callLog[i].fn = "parsePublicKeyHex" =>
            /\ Len(callLog[i].args.hex) # 64 => ~callLog[i].out.ok
            /\ Decodes32(callLog[i].args.hex) =>
                   /\ callLog[i].out.ok
                   /\ toHex(callLog[i].out.value) = callLog[i].args.hex

(* C17: unpackEncryptedData fails with the malformed-payload error on      *)
(* every input shorter than 28 bytes, 27 bytes included; on every input of *)
(* 28 bytes or more it returns bytes 0..12 as the nonce, bytes 12..28 as   *)
(* the tag and bytes 28..end as the ciphertext, which is empty for an      *)
(* input of exactly 28 bytes.                                              *)
C17_UnpackSlices ==
    \A i \in DOMAIN callLog :
        callLog[i].fn = "unpackEncryptedData" =>
            LET packed == callLog[i].args.packed
                out == callLog[i].out
            IN  IF Len(packed) < 28
                THEN out = Err("Packed data too short (minimum 28 bytes for IV + authTag)")
                ELSE /\ out.ok
                     /\ out.value.iv = [k \in 1..12 |-> packed[k]]
                     /\ out.value.authTag = [k \in 1..16 |-> packed[12 + k]]
                     /\ out.value.ciphertext
                        = [k \in 1..(Len(packed) - 28) |-> packed[28 + k]]

\* an input of exactly 28 bytes was unpacked
C17_Witness ==
    \E i \in DOMAIN callLog :
        /\ callLog[i].fn = "unpackEncryptedData"
        /\ Len(callLog[i].args.packed) = 28
        /\ callLog[i].out.ok
        /\ callLog[i].out.value.ciphertext = <<>>

\* inputs of 27 and of 30 bytes
C17_WitnessShort ==
    \E i \in DOMAIN callLog :
        /\ callLog[i].fn = "unpackEncryptedData"
        /\ Len(callLog[i].args.packed) = 27
        /\ ~callLog[i].out.ok

C17_WitnessLong ==
    \E i \in DOMAIN callLog :
        /\ callLog[i].fn = "unpackEncryptedData"
        /\ Len(callLog[i].args.packed) = 30
        /\ Len(callLog[i].out.value.ciphertext) = 2

-----------------------------------------------------------------------------
\* the payload of the cipher harness was packed and the packed bytes are
\* the ones packEncryptedData returned
PackedIntact ==
    /\ cStage \in {"packed", "unpacked", "decrypted"}
    /\ cPacked # <<>>
    /\ cFlip = <<>>

(* C18: for every payload produced by encryptData with an N-byte           *)
(* ciphertext, packEncryptedData returns the nonce, then the tag, then the *)
(* ciphertext, N + 28 bytes in all, 28 for an empty plaintext.             *)
C18_PackLayout ==
    PackedIntact =>
        LET p == cEncrypted.value
            N == Len(p.ciphertext)
        IN  /\ N = Len(cData)
            /\ Len(cPacked) = N + 28
            /\ \A k \in 1..12 : cPacked[k] = p.iv[k]
            /\ \A k \in 1..16 : cPacked[12 + k] = p.authTag[k]
            /\ \A k \in 1..N : cPacked[28 + k] = p.ciphertext[k]

\* a payload with a ciphertext of MaxDataLen bytes was packed
C18_Witness ==
    /\ cStage = "packed"
    /\ cFlip = <<>>
    /\ Len(cEncrypted.value.ciphertext) = MaxDataLen

\* the payload of the empty plaintext was packed
C18_WitnessEmpty ==
    /\ cStage = "packed"
    /\ cData = <<>>
    /\ Len(cPacked) = 28

(* C19: unpack is the inverse of pack: unpackEncryptedData of the packed   *)
(* bytes of a payload with a 12-byte nonce and a 16-byte tag returns the   *)
(* nonce, tag and ciphertext of that payload, and decryptData of the       *)
(* result under the key returns the plaintext that was encrypted.          *)
C19_UnpackInvertsPack ==
    (PackedIntact /\ cStage # "packed") =>
        /\ Len(cEncrypted.value.iv) = 12
        /\ Len(cEncrypted.value.authTag) = 16
        /\ cUnpacked.ok
        /\ cUnpacked.value.iv = cEncrypted.value.iv
        /\ cUnpacked.value.authTag = cEncrypted.value.authTag
        /\ cUnpacked.value.ciphertext = cEncrypted.value.ciphertext
        /\ cStage = "decrypted" => cPlain = Ok(cData)

\* a non-empty plaintext went through encrypt, pack, unpack and decrypt
C19_Witness ==
    /\ PackedIntact
    /\ cStage = "decrypted"
    /\ cUnpacked.ok
    /\ cPlain.ok
    /\ Len(cData) = MaxDataLen

-----------------------------------------------------------------------------
(* C20: encryptData and decryptData fail with the invalid-key-length error *)
(* for every key that is not 32 bytes long, before any other step:         *)
(* encryptData returns no payload and draws no nonce, decryptData reports  *)
(* the key-length error and not the authentication failure also when the   *)
(* payload is invalid.                                                     *)
C20_KeyLengthFirst ==
    /\ \A i \in DOMAIN callLog :
          /\ (callLog[i].fn = "encryptData"
              /\ Len(callLog[i].args.key) # 32) =>
                 callLog[i].out
                 = Err("Encryption key must be 32 bytes (256 bits)")
          /\ (callLog[i].fn = "decryptData"
              /\ Len(callLog[i].args.key) # 32) =>
                 callLog[i].out
                 = Err("Decryption key must be 32 bytes (256 bits)")
    /\ drawn = Cardinality(DrawingCalls)

\* decryptData was called with a key of 16 bytes on a payload whose tag
\* does not verify
C20_Witness ==
    \E i \in DOMAIN callLog :
        /\ callLog[i].fn = "decryptData"
        /\ Len(callLog[i].args.key) = 16
        /\ ~callLog[i].args.intact
        /\ ~callLog[i].out.ok

\* encryptData was called with keys of 31 and of 33 bytes
C20_WitnessEncrypt ==
    \E i, j \in DOMAIN callLog :
        /\ TwoCalls("encryptData", i, j)
        /\ Len(callLog[i].args.key) = 31
        /\ Len(callLog[j].args.key) = 33
        /\ ~callLog[i].out.ok
        /\ ~callLog[j].out.ok

-----------------------------------------------------------------------------
(* C21: every commitment function, the owner commitment and the public-key *)
(* commitment, fails with the invalid-key-length error on every input that *)
(* is not 32 bytes long and returns no commitment.                         *)
C21_CommitRejectsLength ==
    \A i \in DOMAIN callLog :
        (callLog[i].fn \in CommitFns /\ Len(callLog[i].args.key) # 32)
            => callLog[i].out = Err("Secret key must be 32 bytes")

\* what holds of computeOwnerCommitment alone
C21_OwnerRejectsLength ==
    \A i \in DOMAIN callLog :
        (/\ callLog[i].fn = "computeOwnerCommitment"
         /\ Len(callLog[i].args.key) # 32)
            => callLog[i].out = Err("Secret key must be 32 bytes")

(* C22: wrapDocumentKey fails with the invalid-key-length error for every  *)
(* document key that is not 32 bytes long; it then produces no wrapped key *)
(* and draws no nonce.                                                     *)
C22_WrapRejectsLength ==
    /\ \A i \in DOMAIN callLog :
          callLog[i].fn = "wrapDocumentKey" =>
              IF Len(callLog[i].args.key) # 32
              THEN callLog[i].out = Err("Document key must be 32 bytes")
              ELSE /\ callLog[i].out.ok
                   /\ Len(callLog[i].out.value.nonce) = 24
    /\ \A i, j \in DOMAIN callLog :
          (/\ TwoCalls("wrapDocumentKey", i, j)
           /\ j = i + 1
           /\ ~callLog[i].out.ok
           /\ callLog[j].out.ok)
          => callLog[j].out.value.nonce
             = randomBytes(24, Cardinality({k \in DrawingCalls : k < i}) + 1)

\* a document key of 16 bytes was refused, then one of 32 bytes wrapped
C22_Witness ==
    \E i, j \in DOMAIN callLog :
        /\ TwoCalls("wrapDocumentKey", i, j)
        /\ Len(callLog[i].args.key) = 16
        /\ ~callLog[i].out.ok
        /\ callLog[j].out.ok

(* C23: generateKeyPairFromSeed is deterministic: two calls with the same  *)
(* 32-byte seed return the same public and secret key, the secret key      *)
(* being the seed, so that an identity is regenerated from its stored      *)
(* seed; for every seed that is not 32 bytes long it fails with the        *)
(* invalid-seed-length error.                                              *)
C23_SeedDeterministic ==
    /\ \A i \in DOMAIN callLog :
          callLog[i].fn = "generateKeyPairFromSeed" =>
              IF Len(callLog[i].args.key) # 32
              THEN callLog[i].out = Err("Seed must be 32 bytes")
              ELSE /\ callLog[i].out.ok
                   /\ callLog[i].out.value.secretKey = callLog[i].args.key
                   /\ Len(callLog[i].out.value.publicKey) = 32
    /\ \A i, j \in DOMAIN callLog :
          (/\ TwoCalls("generateKeyPairFromSeed", i, j)
           /\ callLog[i].args.key = callLog[j].args.key)
          => callLog[i].out = callLog[j].out
    /\ \A i, j \in DOMAIN callLog :
          (/\ TwoCalls("generateKeyPairFromSeed", i, j)
           /\ callLog[i].out.ok
           /\ callLog[j].out.ok
           /\ callLog[i].args.key # callLog[j].args.key)
          => callLog[i].out.value.publicKey # callLog[j].out.value.publicKey

\* a key pair was generated twice from the same 32-byte seed
C23_Witness ==
    \E i, j \in DOMAIN callLog :
        /\ TwoCalls("generateKeyPairFromSeed", i, j)
        /\ callLog[i].args.key = callLog[j].args.key
        /\ callLog[i].out.ok
        /\ callLog[j].out.ok

\* seeds of 31 and of 33 bytes were refused
C23_WitnessLength ==
    \E i, j \in DOMAIN callLog :
        /\ TwoCalls("generateKeyPairFromSeed", i, j)
        /\ Len(callLog[i].args.key) = 31
        /\ Len(callLog[j].args.key) = 33
        /\ ~callLog[i].out.ok
        /\ ~callLog[j].out.ok

-----------------------------------------------------------------------------
(* DocumentManagerContract under calls that overlap.  Every method is      *)
(* async: it runs to its first await when it is called and the rest runs   *)
(* when the awaited promise settles, so another call can run in between.   *)
(* dmImpl "placeholder" is the wrapper of src/api/contract.ts, whose       *)
(* connect and close have no await; dmImpl "wallet" is the wrapper that    *)
(* builds a wallet from the mnemonic, whose connect awaits the wallet and  *)
(* its synchronisation and whose close awaits wallet.stop().               *)

\* the circuit calls that the command line does not use
updateDocument(w, documentId, newContentHash, newStorageCid) ==
    IF ~w.contract THEN Err(NotConnected) ELSE Ok(<<>>)

deactivateDocument(w, documentId) ==
    IF ~w.contract THEN Err(NotConnected) ELSE Ok(<<>>)

getDocument(w, documentId) ==
    IF ~w.contract THEN Err(NotConnected) ELSE Ok("null")

LedgerFns ==
    {"registerDocument", "verifyDocument", "updateDocument",
     "deactivateDocument", "grantAccess", "revokeAccess", "hasAccess",
     "getAccessGrant", "getDocument"}

\* the outcome of the ledger method fn on the wrapper w; hasAccess of the
\* placeholder wrapper resolves to false
LedgerOut(impl, fn, w) ==
    CASE fn = "registerDocument" ->
             registerDocument(w, <<>>, <<>>, <<>>, <<>>)
      [] fn = "verifyDocument" -> verifyDocument(w, <<>>, <<>>)
      [] fn = "updateDocument" -> updateDocument(w, <<>>, <<>>, <<>>)
      [] fn = "deactivateDocument" -> deactivateDocument(w, <<>>)
      [] fn = "grantAccess" -> grantAccess(w, <<>>, <<>>, <<>>, <<>>, <<>>)
      [] fn = "revokeAccess" -> revokeAccess(w, <<>>, <<>>)
      [] fn = "hasAccess" ->
             IF impl = "placeholder" /\ w.contract
             THEN Ok(FALSE)
             ELSE hasAccess(w, <<>>, <<>>)
      [] fn = "getAccessGrant" -> getAccessGrant(w, <<>>, <<>>)
      [] fn = "getDocument" -> getDocument(w, <<>>)

NothingSince == [connect |-> FALSE, connectToDeployed |-> FALSE]

\* a call that settled: its outcome and what had succeeded since the last
\* close() when it was made
Settled(fn, out, since) == [fn |-> fn, out |-> out, since |-> since]

InitWrapper ==
    /\ dmImpl \in {"placeholder", "wallet"}
    /\ dm = createDocumentManager
    /\ dmPending = [connect |-> "no", connectToDeployed |-> "no",
                    close |-> "no",
                    since |-> [connect |-> FALSE,
                               connectToDeployed |-> FALSE]]
    /\ dmSince = NothingSince
    /\ dmLast = Settled("none", Null, NothingSince)
    /\ CipherIdle
    /\ KeysIdle
    /\ HashIdle
    /\ CliIdle
    /\ CallsIdle
    /\ DeployIdle

\* connect(): the placeholder wrapper connects at once unless WALLET_SEED is
\* not set; the wallet wrapper validates the mnemonic and awaits
\* initWalletWithSeed
ConnectCall ==
    /\ dmPending.connect = "no"
    /\ \E secretOk \in BOOLEAN :
          IF ~secretOk
          THEN /\ dmLast' = Settled("connect",
                                    IF dmImpl = "placeholder"
                                    THEN Err("WALLET_SEED not set")
                                    ELSE Err("Invalid mnemonic"), dmSince)
               /\ UNCHANGED <<dm, dmPending, dmSince>>
          ELSE IF dmImpl = "placeholder"
          THEN /\ dm' = [dm EXCEPT !.isConnected = TRUE]
               /\ dmSince' = [dmSince EXCEPT !.connect = TRUE]
               /\ dmLast' = Settled("connect", Ok(<<>>), dmSince)
               /\ UNCHANGED dmPending
          ELSE /\ dmPending' = [dmPending EXCEPT !.connect = "initWallet"]
               /\ UNCHANGED <<dm, dmSince, dmLast>>
    /\ UNCHANGED <<dmImpl, cipherVars, keyVars, hashVars, cliVars, callVars,
                   deployVars>>

\* initWalletWithSeed resolves: walletContext is assigned and connect awaits
\* the synchronised state of that wallet
ConnectWallet ==
    /\ dmPending.connect = "initWallet"
    /\ dm' = [dm EXCEPT !.walletContext = TRUE]
    /\ dmPending' = [dmPending EXCEPT !.connect = "sync"]
    /\ UNCHANGED <<dmImpl, dmSince, dmLast, cipherVars, keyVars, hashVars,
                   cliVars, callVars, deployVars>>

\* the wallet is synchronised: connect reads this.walletContext again, which
\* throws if close() has cleared it, and awaits the state
ConnectSynced ==
    /\ dmPending.connect = "sync"
    /\ IF ~dm.walletContext
       THEN /\ dmPending' = [dmPending EXCEPT !.connect = "no"]
            /\ dmLast' = Settled("connect", Err("TypeError"), dmSince)
       ELSE /\ dmPending' = [dmPending EXCEPT !.connect = "state"]
            /\ UNCHANGED dmLast
    /\ UNCHANGED <<dmImpl, dm, dmSince, cipherVars, keyVars, hashVars,
                   cliVars, callVars, deployVars>>

\* the state arrives: connect sets isConnected and returns the address
ConnectSettles ==
    /\ dmPending.connect = "state"
    /\ dm' = [dm EXCEPT !.isConnected = TRUE]
    /\ dmPending' = [dmPending EXCEPT !.connect = "no"]
    /\ dmSince' = [dmSince EXCEPT !.connect = TRUE]
    /\ dmLast' = Settled("connect", Ok(<<>>), dmSince)
    /\ UNCHANGED <<dmImpl, cipherVars, keyVars, hashVars, cliVars, callVars,
                   deployVars>>

\* connectToDeployed(address): the guard on the connection, then the await
\* of the import of the compiled contract module
ConnectToDeployedCall ==
    /\ dmPending.connectToDeployed = "no"
    /\ IF \/ ~dm.isConnected
          \/ dmImpl = "wallet" /\ ~dm.walletContext
       THEN /\ dmLast' = Settled("connectToDeployed",
                                 IF dmImpl = "placeholder"
                                 THEN Err("Not connected")
                                 ELSE (connectToDeployed(dm, TRUE)).res,
                                 dmSince)
            /\ UNCHANGED dmPending
       ELSE /\ dmPending' = [dmPending EXCEPT !.connectToDeployed = "import",
                                              !.since = dmSince]
            /\ UNCHANGED dmLast
    /\ UNCHANGED <<dmImpl, dm, dmSince, cipherVars, keyVars, hashVars,
                   cliVars, callVars, deployVars>>

\* the import settles: on success the contract is built, in the wallet
\* wrapper from this.walletContext, which throws if close() has cleared it
ImportSettles ==
    /\ dmPending.connectToDeployed = "import"
    /\ dmPending' = [dmPending EXCEPT !.connectToDeployed = "no",
                                      !.since = NothingSince]
    /\ \E importOk \in BOOLEAN :
          IF ~importOk
          THEN /\ dmLast' = Settled("connectToDeployed",
                                    Err("Failed to load contract"),
                                    dmPending.since)
               /\ UNCHANGED <<dm, dmSince>>
          ELSE IF dmImpl = "wallet" /\ ~dm.walletContext
          THEN /\ dmLast' = Settled("connectToDeployed", Err("TypeError"),
                                    dmPending.since)
               /\ UNCHANGED <<dm, dmSince>>
          ELSE /\ dm' = [dm EXCEPT !.contract = TRUE]
               /\ dmSince' = [dmSince EXCEPT !.connectToDeployed = TRUE]
               /\ dmLast' = Settled("connectToDeployed", Ok(<<>>),
                                    dmPending.since)
    /\ UNCHANGED <<dmImpl, cipherVars, keyVars, hashVars, cliVars, callVars,
                   deployVars>>

\* close(): the wallet wrapper awaits wallet.stop() when it has a wallet;
\* otherwise the fields are cleared at once
CloseCall ==
    /\ dmPending.close = "no"
    /\ IF dmImpl = "wallet" /\ dm.walletContext
       THEN /\ dmPending' = [dmPending EXCEPT !.close = "stop"]
            /\ UNCHANGED <<dm, dmSince, dmLast>>
       ELSE /\ dm' = close(dm)
            /\ dmSince' = NothingSince
            /\ dmLast' = Settled("close", Ok(<<>>), dmSince)
            /\ UNCHANGED dmPending
    /\ UNCHANGED <<dmImpl, cipherVars, keyVars, hashVars, cliVars, callVars,
                   deployVars>>

\* wallet.stop() resolves: close clears the fields
CloseSettles ==
    /\ dmPending.close = "stop"
    /\ dm' = close(dm)
    /\ dmPending' = [dmPending EXCEPT !.close = "no"]
    /\ dmSince' = NothingSince
    /\ dmLast' = Settled("close", Ok(<<>>), dmSince)
    /\ UNCHANGED <<dmImpl, cipherVars, keyVars, hashVars, cliVars, callVars,
                   deployVars>>

\* a ledger method: its guard and its return value, with no await
LedgerCall ==
    /\ \E fn \in LedgerFns :
          dmLast' = Settled(fn, LedgerOut(dmImpl, fn, dm), dmSince)
    /\ UNCHANGED <<dmImpl, dm, dmPending, dmSince, cipherVars, keyVars,
                   hashVars, cliVars, callVars, deployVars>>

NextWrapper ==
    \/ ConnectCall
    \/ ConnectWallet
    \/ ConnectSynced
    \/ ConnectSettles
    \/ ConnectToDeployedCall
    \/ ImportSettles
    \/ CloseCall
    \/ CloseSettles
    \/ LedgerCall

SpecWrapper == InitWrapper /\ [][NextWrapper]_vars

(* C24: in every state of the wrapper reached by connect,                  *)
(* connectToDeployed, close and ledger calls, a ledger method              *)
(* (registerDocument, verifyDocument, updateDocument, deactivateDocument,  *)
(* grantAccess, revokeAccess, hasAccess, getAccessGrant, getDocument)      *)
(* called when connectToDeployed has not succeeded since the last close()  *)
(* fails with "Contract not connected", and a connectToDeployed called     *)
(* when connect() has not succeeded since the last close() fails.          *)
C24_GuardedByLifecycle ==
    /\ (dmLast.fn \in LedgerFns /\ ~dmLast.since.connectToDeployed)
           => dmLast.out = Err(NotConnected)
    /\ (dmLast.fn = "connectToDeployed" /\ ~dmLast.since.connect)
           => ~dmLast.out.ok

\* a ledger method was refused on a wrapper that is connected to the network
\* but has loaded no contract
C24_Witness ==
    /\ dmLast.fn \in LedgerFns
    /\ dmLast.out = Err(NotConnected)
    /\ dm.isConnected
    /\ ~dmLast.since.connectToDeployed

\* connectToDeployed was refused on a wrapper that is not connected
C24_WitnessDeployed ==
    /\ dmLast.fn = "connectToDeployed"
    /\ ~dmLast.since.connect
    /\ ~dmLast.out.ok

\* a ledger method went through after connectToDeployed
C24_WitnessAccepted ==
    /\ dmLast.fn \in LedgerFns
    /\ dmLast.since.connectToDeployed
    /\ dmLast.out.ok

(* C25: in every reachable state of the wrapper a loaded contract implies  *)
(* a live connection (contract is non-null only while isConnected is       *)
(* true), also when close() is called while connectToDeployed awaits the   *)
(* import: once both have settled the wrapper is disconnected and holds    *)
(* no contract.                                                            *)
C25_ContractImpliesConnected == dm.contract => dm.isConnected

\* the same for the states in which no call is pending
C25_SettledContractImpliesConnected ==
    (/\ dmPending.connect = "no"
     /\ dmPending.connectToDeployed = "no"
     /\ dmPending.close = "no")
    => (dm.contract => dm.isConnected)

(* C26: download and share grant invoked with document id d only ever     *)
(* operate on a metadata record whose documentId field equals d, and an id *)
(* that matches no uploaded document is reported as "Metadata not found".  *)
C26_LookupById ==
    lastRun.cmd \in {"download", "grant"} =>
        /\ RunFoundMeta => RunMeta.documentId = lastRun.docId
        /\ lastRun.docId \notin DOMAIN uploaded =>
               (lastRun.exit = 1 /\ lastRun.error = "Metadata not found")

\* the metadata file written by one upload is never overwritten by the
\* upload of a different document
C26_MetadataKept ==
    \A d \in DOMAIN uploaded :
        /\ Slice(d, 16) \in DOMAIN metaFiles
        /\ MetaOf(d).documentId = d

\* an id that no upload produced and whose first 16 characters name no
\* metadata file is reported as not found
C26_UnknownNotFound ==
    (/\ lastRun.cmd \in {"download", "grant"}
     /\ ~RunFoundMeta)
    => (lastRun.exit = 1 /\ lastRun.error = "Metadata not found")

\* the call named fn was made in the run
Called(calls, fn) == \E i \in DOMAIN calls : calls[i] = fn

\* the call named a was made before the call named b
Before(calls, a, b) ==
    \E i, j \in DOMAIN calls : i < j /\ calls[i] = a /\ calls[j] = b

\* the steps of upload that the environment can make fail
UploadFaults == {"config", "storage", "mnemonic", "nodeploy", "import"}

(* C27: in every run of upload the metadata record is written only after   *)
(* uploadToStorage has returned and, without --dry-run, after              *)
(* registerDocument has returned; if the storage upload, the deployment    *)
(* lookup or the registration fails, no metadata file is written; with     *)
(* --dry-run no ledger operation (connect, connectToDeployed,              *)
(* registerDocument) is performed.                                         *)
C27_MetadataLast ==
    [][(lastRun.cmd = "none" /\ lastRun'.cmd = "upload") =>
        LET run == lastRun'
        IN  /\ metaFiles' # metaFiles =>
                   /\ run.exit = 0
                   /\ Before(run.calls, "uploadToStorage", "writeFile")
                   /\ run.calls[Len(run.calls)] = "writeFile"
                   /\ ~run.dryRun =>
                          Before(run.calls, "registerDocument", "writeFile")
            /\ Called(run.calls, "writeFile") <=> metaFiles' # metaFiles
            /\ run.fault \in UploadFaults =>
                   /\ run.exit = 1
                   /\ metaFiles' = metaFiles
            /\ run.dryRun =>
                   /\ ~Called(run.calls, "connect")
                   /\ ~Called(run.calls, "connectToDeployed")
                   /\ ~Called(run.calls, "registerDocument")]_vars

\* an upload registered the document and then wrote its metadata file
C27_Witness ==
    /\ lastRun.cmd = "upload"
    /\ ~lastRun.dryRun
    /\ lastRun.exit = 0
    /\ Before(lastRun.calls, "registerDocument", "writeFile")
    /\ Slice(lastRun.documentId, 16) \in DOMAIN metaFiles

\* an upload stored the payload and failed at the deployment lookup
C27_WitnessFailed ==
    /\ lastRun.cmd = "upload"
    /\ lastRun.fault = "nodeploy"
    /\ lastRun.exit = 1
    /\ Called(lastRun.calls, "uploadToStorage")

\* a dry run wrote its metadata file
C27_WitnessDryRun ==
    /\ lastRun.cmd = "upload"
    /\ lastRun.dryRun
    /\ lastRun.exit = 0
    /\ Called(lastRun.calls, "writeFile")

LedgerCommands == {"upload", "verify", "grant", "revoke"}

(* C28: in upload, verify, share grant and share revoke, once              *)
(* contract.connect() has succeeded, contract.close() is called before the *)
(* command ends on every path, the paths where connectToDeployed or a      *)
(* ledger call fails included.                                             *)
C28_ClosedOnEveryPath ==
    (/\ lastRun.cmd \in LedgerCommands
     /\ Called(lastRun.calls, "connect")
     /\ lastRun.fault # "mnemonic")
    => Before(lastRun.calls, "connect", "close")

\* the same for the runs in which connectToDeployed did not fail
C28_ClosedUnlessImportFails ==
    (/\ lastRun.cmd \in LedgerCommands
     /\ Called(lastRun.calls, "connect")
     /\ lastRun.fault \notin {"mnemonic", "import"})
    => Before(lastRun.calls, "connect", "close")

-----------------------------------------------------------------------------
(* src/cli.ts: keys generate.  The working directory starts without key    *)
(* pair files; every generated pair is a new outcome of nacl.box.keyPair.  *)

\* a save that keeps a file that is already there
saveKeyPair_keep(files, keypair, filePath) ==
    IF filePath \in DOMAIN files
    THEN files
    ELSE (filePath :> serializeKeyPair(keypair)) @@ files

\* saveKeyPair(keypair, filePath): the files after the write
saveKeyPair(files, keypair, filePath) ==
    (filePath :> serializeKeyPair(keypair)) @@ files

\* the -o paths
OutputPaths == 1..NumIdentities

InitKeygen ==
    /\ keyFiles = <<>>
    /\ metaFiles = <<>>
    /\ storage = <<>>
    /\ entropy = 0
    /\ accessLog = <<>>
    /\ uploaded = <<>>
    /\ lastRun = Run("none")
    /\ CipherIdle
    /\ KeysIdle
    /\ HashIdle
    /\ CallsIdle
    /\ WrapIdle
    /\ DeployIdle

\* keys generate [-o path] [-f]
KeysGenerate ==
    /\ lastRun.cmd = "none"
    /\ \E outputPath \in OutputPaths, force \in BOOLEAN :
        LET run == [Run("keygen") EXCEPT !.keypair = outputPath,
                                         !.force = force]
        IN
        IF outputPath \in DOMAIN keyFiles /\ ~force
        THEN /\ lastRun' = [run EXCEPT !.report = "Keypair exists"]
             /\ UNCHANGED <<keyFiles, entropy>>
        ELSE /\ entropy < NumIdentities
             /\ entropy' = entropy + 1
             /\ LET keypair == generateKeyPair(entropy + 1)
                IN  /\ keyFiles' = saveKeyPair(keyFiles, keypair, outputPath)
                    /\ lastRun' =
                           [run EXCEPT
                               !.report = "Keypair generated",
                               !.pubkey = getPublicKeyHex(keypair),
                               !.calls = <<"generateKeyPair", "saveKeyPair">>]
    /\ UNCHANGED <<metaFiles, storage, accessLog, uploaded>>
    /\ UNCHANGED <<cipherVars, keyVars, hashVars, callVars, wrapVars,
                   deployVars>>

NextKeygen ==
    \/ KeysGenerate
    \/ Exit

SpecKeygen == InitKeygen /\ [][NextKeygen]_vars

(* C29: keys generate never overwrites an existing key pair file unless    *)
(* --force is given: when the output file exists and --force is not set,   *)
(* the file is left unchanged and no new key pair is generated; otherwise  *)
(* the file holds the newly generated pair.                                *)
C29_ForceToOverwrite ==
    [][(lastRun.cmd = "none" /\ lastRun'.cmd = "keygen") =>
        LET o == lastRun'.keypair
        IN  /\ \A q \in DOMAIN keyFiles :
                   q # o => (q \in DOMAIN keyFiles' /\ keyFiles'[q] = keyFiles[q])
            /\ IF o \in DOMAIN keyFiles /\ ~lastRun'.force
               THEN /\ keyFiles' = keyFiles
                    /\ entropy' = entropy
                    /\ ~Called(lastRun'.calls, "generateKeyPair")
               ELSE /\ entropy' = entropy + 1
                    /\ DOMAIN keyFiles' = DOMAIN keyFiles \cup {o}
                    /\ keyFiles'[o] =
                           serializeKeyPair(generateKeyPair(entropy'))
                    /\ \A q \in DOMAIN keyFiles :
                           keyFiles'[o] # keyFiles[q]]_vars

\* keys generate without --force found the output file and left it
C29_Witness ==
    /\ lastRun.cmd = "keygen"
    /\ ~lastRun.force
    /\ lastRun.report = "Keypair exists"
    /\ lastRun.keypair \in DOMAIN keyFiles

\* keys generate --force replaced the pair in an existing file
C29_WitnessForce ==
    /\ lastRun.cmd = "keygen"
    /\ lastRun.force
    /\ entropy = 2
    /\ DOMAIN keyFiles = {lastRun.keypair}
    /\ keyFiles[lastRun.keypair] = serializeKeyPair(generateKeyPair(2))

-----------------------------------------------------------------------------
(* src/deploy.ts: the two deploy scripts.  dScript "seed" is the script    *)
(* that builds the wallet from WALLET_SEED, dScript "mnemonic" the one     *)
(* that takes the mnemonic as its argument.  A run is the process of main: *)
(* every action is the code between two awaits.  The wallet is funded by   *)
(* the environment, at any moment or never.                                *)

WAIT_FOR_FUNDS_MS == 90000

WAIT_POLL_MS == 3000

\* how much later than asked a timer can fire, in ms
PollJitter == 1500

\* the time that setTimeout(r, WAIT_POLL_MS) and the read of the wallet
\* state take
PollDelays == {WAIT_POLL_MS, WAIT_POLL_MS + PollJitter}

InitDeploy ==
    /\ dScript \in {"seed", "mnemonic"}
    /\ dFunding \in {"never", "initially", "later"}
    /\ dShielded = IF dFunding = "initially" THEN 1 ELSE 0
    /\ dPc = "start"
    /\ dBalance = 0
    /\ dDeadline = 0
    /\ dClock = 0
    /\ dWallet = "none"
    /\ dExit = -1
    /\ dSubmitted = FALSE
    /\ dWritten = FALSE
    /\ CipherIdle
    /\ KeysIdle
    /\ HashIdle
    /\ CliIdle
    /\ CallsIdle
    /\ WrapIdle

\* the environment funds the wallet
Fund ==
    /\ dFunding = "later"
    /\ dShielded = 0
    /\ dPc \notin {"exited", "done"}
    /\ dShielded' = 1
    /\ UNCHANGED <<dScript, dFunding, dPc, dBalance, dDeadline, dClock,
                   dWallet, dExit, dSubmitted, dWritten>>
    /\ UNCHANGED <<cipherVars, keyVars, hashVars, cliVars, callVars,
                   wrapVars>>

\* main up to the first read of the balance: the arguments and the
\* environment are validated (the mnemonic script exits with 2 on an invalid
\* mnemonic, the seed script with 1 on an invalid environment or a contract
\* that is not compiled), the wallet is built, started and synchronised
StartWallet ==
    /\ dPc = "start"
    /\ \E inputOk \in BOOLEAN :
          IF ~inputOk
          THEN /\ dPc' = "exited"
               /\ dExit' = IF dScript = "mnemonic" THEN 2 ELSE 1
               /\ UNCHANGED <<dBalance, dWallet>>
          ELSE /\ dPc' = "balance"
               /\ dWallet' = "started"
               /\ dBalance' = dShielded
               /\ UNCHANGED dExit
    /\ UNCHANGED <<dScript, dFunding, dShielded, dDeadline, dClock,
                   dSubmitted, dWritten>>
    /\ UNCHANGED <<cipherVars, keyVars, hashVars, cliVars, callVars,
                   wrapVars>>

\* if (balance === 0n): the mnemonic script sets the deadline and enters the
\* polling loop, the seed script subscribes to the wallet state and awaits
\* a positive balance
CheckBalance ==
    /\ dPc = "balance"
    /\ IF dBalance # 0
       THEN /\ dPc' = "load"
            /\ UNCHANGED dDeadline
       ELSE IF dScript = "mnemonic"
       THEN /\ dPc' = "poll"
            /\ dDeadline' = dClock + WAIT_FOR_FUNDS_MS
       ELSE /\ dPc' = "waitForFunds"
            /\ UNCHANGED dDeadline
    /\ UNCHANGED <<dScript, dFunding, dShielded, dBalance, dClock, dWallet,
                   dExit, dSubmitted, dWritten>>
    /\ UNCHANGED <<cipherVars, keyVars, hashVars, cliVars, callVars,
                   wrapVars>>

\* while (balance === 0n && Date.now() < deadline): one turn of the loop
\* sleeps and reads the balance again; the loop ends otherwise
Poll ==
    /\ dPc = "poll"
    /\ IF dBalance = 0 /\ dClock < dDeadline
       THEN /\ \E delay \in PollDelays : dClock' = dClock + delay
            /\ dBalance' = dShielded
            /\ UNCHANGED dPc
       ELSE /\ dPc' = "polled"
            /\ UNCHANGED <<dClock, dBalance>>
    /\ UNCHANGED <<dScript, dFunding, dShielded, dDeadline, dWallet, dExit,
                   dSubmitted, dWritten>>
    /\ UNCHANGED <<cipherVars, keyVars, hashVars, cliVars, callVars,
                   wrapVars>>

\* if (balance === 0n) after the loop: stop the wallet and exit with 1
StillUnfunded ==
    /\ dPc = "polled"
    /\ IF dBalance = 0
       THEN /\ dWallet' = "stopped"
            /\ dExit' = 1
            /\ dPc' = "exited"
       ELSE /\ dPc' = "load"
            /\ UNCHANGED <<dWallet, dExit>>
    /\ UNCHANGED <<dScript, dFunding, dShielded, dBalance, dDeadline, dClock,
                   dSubmitted, dWritten>>
    /\ UNCHANGED <<cipherVars, keyVars, hashVars, cliVars, callVars,
                   wrapVars>>

\* the subscription of the seed script sees a state with a positive
\* balance: the promise resolves
FundsArrive ==
    /\ dPc = "waitForFunds"
    /\ dShielded > 0
    /\ dBalance' = dShielded
    /\ dPc' = "load"
    /\ UNCHANGED <<dScript, dFunding, dShielded, dDeadline, dClock, dWallet,
                   dExit, dSubmitted, dWritten>>
    /\ UNCHANGED <<cipherVars, keyVars, hashVars, cliVars, callVars,
                   wrapVars>>

\* the compiled contract and its verifier keys are loaded; the mnemonic
\* script stops the wallet and exits with 1 if they are missing, in the seed
\* script the failing import goes to the catch, which exits with 1
LoadContract ==
    /\ dPc = "load"
    /\ \E found \in BOOLEAN :
          IF found
          THEN /\ dPc' = "deploy"
               /\ UNCHANGED <<dWallet, dExit>>
          ELSE /\ dPc' = "exited"
               /\ dExit' = 1
               /\ dWallet' = IF dScript = "mnemonic" THEN "stopped"
                             ELSE dWallet
    /\ UNCHANGED <<dScript, dFunding, dShielded, dBalance, dDeadline, dClock,
                   dSubmitted, dWritten>>
    /\ UNCHANGED <<cipherVars, keyVars, hashVars, cliVars, callVars,
                   wrapVars>>

\* the deploy transaction is balanced, proved and submitted, then
\* deployment.json is written and the wallet stopped; a failure before the
\* submission goes to the catch, which exits with 1
Deploy ==
    /\ dPc = "deploy"
    /\ \E balanced \in BOOLEAN :
          IF balanced
          THEN /\ dSubmitted' = TRUE
               /\ dWritten' = TRUE
               /\ dWallet' = "stopped"
               /\ dExit' = 0
               /\ dPc' = "done"
          ELSE /\ dExit' = 1
               /\ dPc' = "exited"
               /\ UNCHANGED <<dSubmitted, dWritten, dWallet>>
    /\ UNCHANGED <<dScript, dFunding, dShielded, dBalance, dDeadline,
                   dClock>>
    /\ UNCHANGED <<cipherVars, keyVars, hashVars, cliVars, callVars,
                   wrapVars>>

\* the steps of the script itself
MainStep ==
    \/ StartWallet
    \/ CheckBalance
    \/ Poll
    \/ StillUnfunded
    \/ FundsArrive
    \/ LoadContract
    \/ Deploy

NextDeploy ==
    \/ Fund
    \/ MainStep

SpecDeploy == InitDeploy /\ [][NextDeploy]_vars

\* the event loop runs every timer that fires and every promise that
\* settles: a step of main that stays possible is taken.  Nothing obliges
\* the environment to fund the wallet.
SpecDeployFair == SpecDeploy /\ WF_vars(MainStep)

\* the run waits for funds that never come
WaitingUnfunded ==
    /\ dFunding = "never"
    /\ dPc \in {"poll", "waitForFunds"}

\* the run has stopped the wallet and exited with 1
ExitedUnfunded ==
    /\ dPc = "exited"
    /\ dExit = 1
    /\ dWallet = "stopped"

(* C30: the deploy script terminates even if the wallet is never funded:   *)
(* when the shielded balance stays 0 it stops waiting once the funding     *)
(* deadline has passed, stops the wallet, exits with status 1, and neither *)
(* submits a deploy transaction nor writes deployment.json.                *)
C30_TerminatesUnfunded ==
    /\ WaitingUnfunded ~> ExitedUnfunded
    /\ [](dFunding = "never" => (~dSubmitted /\ ~dWritten))

\* the same for the script that takes the mnemonic, with the deadline: the
\* wait ends at the first poll at or after the deadline
C30_MnemonicTerminates ==
    /\ (dScript = "mnemonic" /\ WaitingUnfunded) ~> ExitedUnfunded
    /\ [](dFunding = "never" => (~dSubmitted /\ ~dWritten))
    /\ []((dScript = "mnemonic" /\ dPc = "poll")
            => dClock < dDeadline + WAIT_POLL_MS + PollJitter)

====
